---- MODULE Spec2Model ----
(***************************************************************************)
(* A model of the iXBRL fact extraction and analysis engine of             *)
(* bolagsverket_mcp_server.py: the numeric normalisation and fact lookup   *)
(* of IXBRLParser._get_value, the key ratios of Nyckeltal and              *)
(* IXBRLParser.get_nyckeltal, and the two risk rule engines                *)
(* (IXBRLParser.analyze_roda_flaggor and the module-level                  *)
(* analyze_roda_flaggor).                                                  *)
(*                                                                         *)
(* Text is modelled as a sequence of one-character strings, so that the    *)
(* str.replace / str.strip / float() / int() steps of the code are         *)
(* computed on the characters.  The two non-ASCII minus glyphs are the     *)
(* symbols "U2212" (MINUS SIGN) and "U2013" (EN DASH).                     *)
(***************************************************************************)
EXTENDS Integers, Sequences, FiniteSets, TLC

VARIABLES
    soup,       \* IXBRLParser.soup: the ix:nonfraction tags in document order
    call,       \* the last operation and its arguments
    value,      \* the outcome of the last _get_value call
    nyckeltal,  \* the Nyckeltal record of the last get_nyckeltal call
    flaggor,    \* flags of the last IXBRLParser.analyze_roda_flaggor call
    flaggor_v4, \* flags of the last module-level analyze_roda_flaggor call
    result,     \* what the last call of a tool or of a module-level function returned
    api,        \* what the Bolagsverket API answers
    cache_manager, \* the rows of CacheManager's table cache
    token_manager, \* TokenManager.access_token and TokenManager.token_expiry
    clock,      \* datetime.now(): seconds of UTC since the start
    last_set    \* history: per cache key, the last set that no delete or clear_all undid

vars == <<soup, call, value, nyckeltal, flaggor, flaggor_v4, result, api,
          cache_manager, token_manager, clock, last_set>>

(***************************************************************************)
(* Optional values and outcomes.  A Python call either returns an int,     *)
(* returns None, or lets an exception escape.                              *)
(***************************************************************************)
None == [kind |-> "none", val |-> 0]

Raised == [kind |-> "raise", val |-> 0]

\* TokenManager.__init__ (lines 672-674): no token and no expiry
NoToken == [access_token |-> None, token_expiry |-> None]

Some(n) == [kind |-> "value", val |-> n]

IsSome(o) == o.kind = "value"

\* Python truthiness of an Optional[int]: None and 0 are both falsy.
Truthy(o) == o.kind = "value" /\ o.val # 0

\* F(x) with x evaluated once: Python evaluates the arguments of a call before
\* the call
WithValue(x, F(_)) == CHOOSE r \in {F(v) : v \in {x}} : TRUE

(***************************************************************************)
(* Characters and strings.                                                 *)
(***************************************************************************)
Digits == {"0", "1", "2", "3", "4", "5", "6", "7", "8", "9"}

DigitVal(c) ==
    CASE c = "0" -> 0 [] c = "1" -> 1 [] c = "2" -> 2 [] c = "3" -> 3
      [] c = "4" -> 4 [] c = "5" -> 5 [] c = "6" -> 6 [] c = "7" -> 7
      [] c = "8" -> 8 [] c = "9" -> 9

UpperToLower ==
    [A |-> "a", B |-> "b", C |-> "c", D |-> "d", E |-> "e", F |-> "f",
     G |-> "g", H |-> "h", I |-> "i", J |-> "j", K |-> "k", L |-> "l",
     M |-> "m", N |-> "n", O |-> "o", P |-> "p", Q |-> "q", R |-> "r",
     S |-> "s", T |-> "t", U |-> "u", V |-> "v", W |-> "w", X |-> "x",
     Y |-> "y", Z |-> "z"]

\* str.lower()
Lower(s) ==
    [i \in 1..Len(s) |->
        IF s[i] \in DOMAIN UpperToLower THEN UpperToLower[s[i]] ELSE s[i]]

\* str.replace(old, new) for a one-character old and a new of length 0 or 1
Replace(s, old, new) ==
    IF new = <<>>
    THEN SelectSeq(s, LAMBDA c : c # old)
    ELSE [i \in 1..Len(s) |-> IF s[i] = old THEN new[1] ELSE s[i]]

RECURSIVE LStrip(_)
LStrip(s) == IF s # <<>> /\ s[1] = " " THEN LStrip(Tail(s)) ELSE s

RECURSIVE RStrip(_)
RStrip(s) ==
    IF s # <<>> /\ s[Len(s)] = " " THEN RStrip(SubSeq(s, 1, Len(s) - 1)) ELSE s

\* str.strip()
Strip(s) == RStrip(LStrip(s))

\* needle in haystack (Python substring test)
Contains(haystack, needle) ==
    \/ needle = <<>>
    \/ \E i \in 1..(Len(haystack) - Len(needle) + 1) :
            /\ haystack[i] = needle[1]
            /\ SubSeq(haystack, i, i + Len(needle) - 1) = needle

IsDigits(s) == \A i \in 1..Len(s) : s[i] \in Digits

RECURSIVE DigitsVal(_)
DigitsVal(s) ==
    IF s = <<>> THEN 0
    ELSE 10 * DigitsVal(SubSeq(s, 1, Len(s) - 1)) + DigitVal(s[Len(s)])

RECURSIVE Pow10(_)
Pow10(n) == IF n <= 0 THEN 1 ELSE 10 * Pow10(n - 1)

\* m divided by 10^k, rounded down, for m >= 0 (stops as soon as nothing is left)
RECURSIVE DivPow10(_, _)
DivPow10(m, k) == IF k <= 0 \/ m = 0 THEN m ELSE DivPow10(m \div 10, k - 1)

(***************************************************************************)
(* float(text) on the alphabet of the model: an optional sign, digits with *)
(* at most one ".", or the words inf / nan.  The result keeps the decimal  *)
(* exactly: the number is (-1)^neg * mant / 10^frac.                       *)
(***************************************************************************)
BadFloat == [kind |-> "bad", neg |-> FALSE, mant |-> 0, frac |-> 0]

ParseFloat(text) ==
    LET s == Strip(text)
        signed == s # <<>> /\ s[1] \in {"-", "+"}
        neg == s # <<>> /\ s[1] = "-"
        body == IF signed THEN Tail(s) ELSE s
        dots == {i \in 1..Len(body) : body[i] = "."}
    IN  IF Lower(body) = <<"i", "n", "f">>
        THEN [kind |-> "inf", neg |-> neg, mant |-> 0, frac |-> 0]
        ELSE IF Lower(body) = <<"n", "a", "n">>
        THEN [kind |-> "nan", neg |-> neg, mant |-> 0, frac |-> 0]
        ELSE IF dots = {}
        THEN IF body # <<>> /\ IsDigits(body)
             THEN [kind |-> "num", neg |-> neg, mant |-> DigitsVal(body), frac |-> 0]
             ELSE BadFloat
        ELSE IF Cardinality(dots) = 1
        THEN LET d == CHOOSE i \in dots : TRUE
                 ip == SubSeq(body, 1, d - 1)
                 fp == SubSeq(body, d + 1, Len(body))
             IN  IF IsDigits(ip) /\ IsDigits(fp) /\ Len(ip) + Len(fp) > 0
                 THEN [kind |-> "num", neg |-> neg,
                       mant |-> DigitsVal(ip \o fp), frac |-> Len(fp)]
                 ELSE BadFloat
        ELSE BadFloat

\* int(text): an optional sign and at least one digit
ParseInt(text) ==
    LET s == Strip(text)
        signed == s # <<>> /\ s[1] \in {"-", "+"}
        body == IF signed THEN Tail(s) ELSE s
    IN  IF body # <<>> /\ IsDigits(body)
        THEN [ok |-> TRUE,
              val |-> IF s[1] = "-" THEN 0 - DigitsVal(body) ELSE DigitsVal(body)]
        ELSE [ok |-> FALSE, val |-> 0]

(***************************************************************************)
(* A tag: its name, contextref, text and the format, scale and sign        *)
(* attributes.  An attribute that is not written on the tag is Absent.     *)
(***************************************************************************)
Absent == <<"ABSENT">>

\* tag.get(attr, default)
Attr(a, default) == IF a = Absent THEN default ELSE a

\* The format values of the inline XBRL transformation registry, by the
\* keywords ('numspacecomma' in format_attr, ...) each one contains.
FormatKeywords ==
    [none            |-> {},
     numcommadecimal |-> {"commadecimal"},
     numdotdecimal   |-> {"dotdecimal"},
     numspacecomma   |-> {"numspacecomma"},
     numspacedot     |-> {"numspacedot"}]

FormatHas(format, keyword) == keyword \in FormatKeywords[format]

(***************************************************************************)
(* The Numeric Normalizer of IXBRLParser._get_value.                       *)
(***************************************************************************)
\* Lines 1215-1235 without the removal of the thousands dot of a
\* comma-decimal amount (line 1225).
NormalizeText_KeepDots(text, format) ==
    LET v0 == Strip(text)
        v1 == IF FormatHas(format, "numspacecomma") \/ FormatHas(format, "numspacedot")
              THEN Replace(v0, " ", <<>>)
              ELSE v0
        v2 == IF FormatHas(format, "commadecimal")
              THEN Replace(v1, ",", <<".">>)
              ELSE IF FormatHas(format, "dotdecimal")
              THEN Replace(v1, ",", <<>>)
              ELSE Replace(Replace(v1, " ", <<>>), ",", <<".">>)
    IN  Replace(Replace(v2, "U2212", <<"-">>), "U2013", <<"-">>)

\* Lines 1215-1235: the separators of the text, by format, and the minus glyphs.
NormalizeText(text, format) ==
    LET v0 == Strip(text)
        v1 == IF FormatHas(format, "numspacecomma") \/ FormatHas(format, "numspacedot")
              THEN Replace(v0, " ", <<>>)
              ELSE v0
        v2 == IF FormatHas(format, "commadecimal")
              THEN Replace(Replace(v1, ".", <<>>), ",", <<".">>)
              ELSE IF FormatHas(format, "dotdecimal")
              THEN Replace(v1, ",", <<>>)
              ELSE Replace(Replace(v1, " ", <<>>), ",", <<".">>)
    IN  Replace(Replace(v2, "U2212", <<"-">>), "U2013", <<"-">>)

\* A Python int n converts to float only below 2^1024: 10 ** scale does for
\* scale <= 308, and float * int raises OverflowError above that.
MaxFloatScale == 308

\* The sign attribute read as a negation (numeric_value = -numeric_value)
\* instead of -abs(numeric_value).
SignOf_Negate(f, sign) == IF sign = <<"-">> THEN ~f.neg ELSE f.neg

\* numeric_value = -abs(numeric_value) when sign == '-' (lines 1243-1245):
\* TRUE when the resulting number is negative (or a negative zero).
SignOf(f, sign) == IF sign = <<"-">> THEN TRUE ELSE f.neg

\* Lines 1237-1249: int(float(value) * 10 ** scale), with the sign attribute.
\* ValueError is caught and gives None; OverflowError is not caught.
NumericValue(text, scale, sign) ==
    LET sc == ParseInt(scale)
        f == ParseFloat(text)
        e == sc.val - f.frac
        mag == IF e >= 0 THEN f.mant * Pow10(e) ELSE DivPow10(f.mant, 0 - e)
    IN  IF ~sc.ok THEN None
        ELSE IF f.kind = "bad" THEN None
        ELSE IF sc.val > MaxFloatScale THEN Raised
        ELSE IF f.kind = "nan" THEN None
        ELSE IF f.kind = "inf"
        THEN (IF sc.val < 0 - 323 THEN None ELSE Raised)
        ELSE Some(IF SignOf(f, sign) THEN 0 - mag ELSE mag)

\* The value of one ix:nonfraction tag.
TagValue(tag) ==
    NumericValue(NormalizeText(tag.text, tag.format),
                 Attr(tag.scale, <<"0">>), Attr(tag.sign, <<>>))

(***************************************************************************)
(* The Fact Locator of IXBRLParser._get_value (numeric = True).            *)
(***************************************************************************)
NoContext == ""

\* name_match(x): x and name_pattern.lower() in x.lower()
NameMatch(name, pattern) ==
    name # Absent /\ name # <<>> /\ Contains(Lower(name), Lower(pattern))

\* soup.find without the contextref attribute (lines 1211-1212 left out)
TagMatches_NoContext(tag, pattern, context) == NameMatch(tag.name, pattern)

\* the attrs of soup.find: the name, and the contextref when a context is given
TagMatches(tag, pattern, context) ==
    /\ (context # NoContext => tag.contextref = context)
    /\ NameMatch(tag.name, pattern)

\* soup.find: the first matching tag in document order, 0 when there is none
FindTag(doc, pattern, context) ==
    LET hits == {i \in 1..Len(doc) : TagMatches(doc[i], pattern, context)}
    IN  IF hits = {} THEN 0 ELSE CHOOSE i \in hits : \A j \in hits : i <= j

get_value(doc, pattern, context) ==
    LET i == FindTag(doc, pattern, context)
    IN  IF i = 0 THEN None ELSE TagValue(doc[i])

(***************************************************************************)
(* Concept names and contexts of the taxonomy that the code looks up.      *)
(***************************************************************************)
Nettoomsattning == <<"N", "e", "t", "t", "o", "o", "m", "s", "a", "t", "t", "n", "i", "n", "g">>

ResultatEfterFinansiellaPoster == <<"R", "e", "s", "u", "l", "t", "a", "t", "E", "f", "t", "e", "r", "F", "i", "n", "a", "n", "s", "i", "e", "l", "l", "a", "P", "o", "s", "t", "e", "r">>

AretsResultat == <<"A", "r", "e", "t", "s", "R", "e", "s", "u", "l", "t", "a", "t">>

EgetKapital == <<"E", "g", "e", "t", "K", "a", "p", "i", "t", "a", "l">>

Tillgangar == <<"T", "i", "l", "l", "g", "a", "n", "g", "a", "r">>

SummaEgetKapitalSkulder == <<"S", "u", "m", "m", "a", "E", "g", "e", "t", "K", "a", "p", "i", "t", "a", "l", "S", "k", "u", "l", "d", "e", "r">>

Soliditet == <<"S", "o", "l", "i", "d", "i", "t", "e", "t">>

MedelantalAnstallda == <<"M", "e", "d", "e", "l", "a", "n", "t", "a", "l", "A", "n", "s", "t", "a", "l", "l", "d", "a">>

Aktiekapital == <<"A", "k", "t", "i", "e", "k", "a", "p", "i", "t", "a", "l">>

NoNyckeltal ==
    [nettoomsattning |-> None, resultat_efter_finansiella |-> None,
     arets_resultat |-> None, eget_kapital |-> None, balansomslutning |-> None,
     soliditet |-> None, antal_anstallda |-> None, vinstmarginal |-> None,
     roe |-> None, raised |-> FALSE]

NoCall == [op |-> "init", pattern |-> <<>>, context |-> NoContext]

NoResult == [kind |-> "none"]

NoApi == [kind |-> "none"]

(***************************************************************************)
(* Specification SpecValue: a document of one numeric tag, whose text and  *)
(* attributes range over the encodings below, and calls of _get_value.     *)
(***************************************************************************)
MaxTextLen == 2

TextChars == {"1", "5", ".", ",", " ", "-"}

RECURSIVE TextsOfLen(_)
TextsOfLen(n) ==
    IF n = 0 THEN {<<>>}
    ELSE {Append(t, c) : t \in TextsOfLen(n - 1), c \in TextChars}

SampleTexts ==
    {<<"1", ".", "2", "3", "4", ",", "5", "6">>,
     <<"1", ",", "2", "3", "4", ".", "5", "6">>,
     <<"1", " ", "2", "3", "4", ",", "5", "6">>,
     <<"1", "0", "0">>, <<"-", "1", "0", "0">>, <<"U2212", "1", "0", "0">>,
     <<"U2013", "1", "0", "0">>, <<" ", "1", "0", "0", " ">>,
     <<"i", "n", "f">>, <<"-", "I", "n", "f">>, <<"n", "a", "n">>,
     <<"a", "b", "c">>, <<"1", ".", "5">>, <<"-", "1", ".", "5">>,
     <<"1", ",", "5">>, <<"-", " ", "5">>, <<"1", " ", "5", "0", "0">>,
     <<"-", "0", ".", "5">>, <<"U2212", "2", "5", ",", "5">>}

Texts == UNION {TextsOfLen(n) : n \in 0..MaxTextLen} \cup SampleTexts

Formats == DOMAIN FormatKeywords

Scales ==
    {Absent, <<"0">>, <<"3">>, <<"-", "1">>, <<"-", "2">>, <<"4", "0", "0">>,
     <<"1", ".", "5">>, <<"a", "b">>, <<>>}

Signs == {Absent, <<"-">>}

ValueTags ==
    [name : {Nettoomsattning}, contextref : {"period0"}, text : Texts,
     format : Formats, scale : Scales, sign : Signs]

InitValue ==
    /\ soup \in {<<t>> : t \in ValueTags}
    /\ call = NoCall
    /\ value = None
    /\ nyckeltal = NoNyckeltal
    /\ flaggor = <<>>
    /\ flaggor_v4 = <<>>
    /\ cache_manager = {}
    /\ token_manager = NoToken
    /\ clock = 0
    /\ last_set = <<>>
    /\ result = NoResult
    /\ api = NoApi

\* self._get_value(pattern, context)
CallGetValue(pattern, context) ==
    /\ call' = [op |-> "_get_value", pattern |-> pattern, context |-> context]
    /\ value' = get_value(soup, pattern, context)
    /\ UNCHANGED <<soup, nyckeltal, flaggor, flaggor_v4, result, api,
                 cache_manager, token_manager, clock, last_set>>

NextValue ==
    \E context \in {NoContext, "period0"} : CallGetValue(Nettoomsattning, context)

SpecValue == InitValue /\ [][NextValue]_vars

(***************************************************************************)
(* Nyckeltal and IXBRLParser.get_nyckeltal.  Amounts are ints; a ratio     *)
(* (vinstmarginal, roe) is kept in hundredths of a percent, which is what  *)
(* round(x, 2) leaves: 5.0 % is Some(500).  soliditet is the int that      *)
(* _get_value returns for the Soliditet tag, in percent.                   *)
(***************************************************************************)
Periods == {"period0", "period1", "period2", "period3", "period4"}

\* period.replace('period', 'balans')
BalansOf ==
    [period0 |-> "balans0", period1 |-> "balans1", period2 |-> "balans2",
     period3 |-> "balans3", period4 |-> "balans4"]

\* f'period{i}'
PeriodOf(i) ==
    CASE i = 0 -> "period0" [] i = 1 -> "period1" [] i = 2 -> "period2"
      [] i = 3 -> "period3" [] i = 4 -> "period4"

\* the integer nearest to n / d (d # 0), a tie going to the even one
RoundHalfEven(n, d) ==
    LET nn == IF d < 0 THEN 0 - n ELSE n
        dd == IF d < 0 THEN 0 - d ELSE d
        q == nn \div dd
        r == nn - q * dd
    IN  IF 2 * r > dd \/ (2 * r = dd /\ q % 2 = 1) THEN q + 1 ELSE q

\* round((a / b) * 100, 2), in hundredths
RoundPercent(a, b) == RoundHalfEven(a * 10000, b)

\* Nyckeltal.berakna_nyckeltal (lines 291-295)
berakna_nyckeltal(n) ==
    [n EXCEPT
        !.vinstmarginal =
            IF Truthy(n.nettoomsattning) /\ Truthy(n.arets_resultat)
            THEN Some(RoundPercent(n.arets_resultat.val, n.nettoomsattning.val))
            ELSE None,
        !.roe =
            IF Truthy(n.eget_kapital) /\ Truthy(n.arets_resultat) /\ n.eget_kapital.val > 0
            THEN Some(RoundPercent(n.arets_resultat.val, n.eget_kapital.val))
            ELSE None]

\* a or b
OrElse(a, b) == IF a = Raised THEN Raised ELSE IF Truthy(a) THEN a ELSE b

\* the Nyckeltal(...) constructor call of lines 1266-1274; raised: one of the
\* lookups let an exception escape
Nyckeltal(no, ref, ar, ek, bo, sol, ma) ==
    [nettoomsattning |-> no, resultat_efter_finansiella |-> ref,
     arets_resultat |-> ar, eget_kapital |-> ek, balansomslutning |-> bo,
     soliditet |-> sol, antal_anstallda |-> ma, vinstmarginal |-> None,
     roe |-> None, raised |-> Raised \in {no, ref, ar, ek, bo, sol, ma}]

\* The lookups of lines 1267-1273 with Soliditet sought in the period (duration)
\* context instead of the balance (instant) context.
NyckeltalLookups_SoliditetInPeriod(period) ==
    [nettoomsattning |-> <<Nettoomsattning, period>>,
     resultat_efter_finansiella |-> <<ResultatEfterFinansiellaPoster, period>>,
     arets_resultat |-> <<AretsResultat, period>>,
     eget_kapital |-> <<EgetKapital, BalansOf[period]>>,
     tillgangar |-> <<Tillgangar, BalansOf[period]>>,
     summa_eget_kapital_skulder |-> <<SummaEgetKapitalSkulder, BalansOf[period]>>,
     soliditet |-> <<Soliditet, period>>,
     antal_anstallda |-> <<MedelantalAnstallda, period>>]

\* The concept pattern and the context of each lookup of lines 1267-1273.
NyckeltalLookups(period) ==
    [nettoomsattning |-> <<Nettoomsattning, period>>,
     resultat_efter_finansiella |-> <<ResultatEfterFinansiellaPoster, period>>,
     arets_resultat |-> <<AretsResultat, period>>,
     eget_kapital |-> <<EgetKapital, BalansOf[period]>>,
     tillgangar |-> <<Tillgangar, BalansOf[period]>>,
     summa_eget_kapital_skulder |-> <<SummaEgetKapitalSkulder, BalansOf[period]>>,
     soliditet |-> <<Soliditet, BalansOf[period]>>,
     antal_anstallda |-> <<MedelantalAnstallda, period>>]

\* IXBRLParser.get_nyckeltal (lines 1263-1277): the lookups, the constructor
\* and berakna_nyckeltal
get_nyckeltal(doc, period) ==
    WithValue(
        [k \in DOMAIN NyckeltalLookups(period) |->
            get_value(doc, NyckeltalLookups(period)[k][1], NyckeltalLookups(period)[k][2])],
        LAMBDA v :
            berakna_nyckeltal(
                Nyckeltal(v.nettoomsattning, v.resultat_efter_finansiella,
                          v.arets_resultat, v.eget_kapital,
                          OrElse(v.tillgangar, v.summa_eget_kapital_skulder),
                          v.soliditet, v.antal_anstallda)))

(***************************************************************************)
(* The Risk Rule Engine.  A flag is kept by its typ and allvarlighet.      *)
(***************************************************************************)
RodFlagga(typ, allvarlighet) == [typ |-> typ, allvarlighet |-> allvarlighet]

\* The low-solvency thresholds of the two engines, in percent.
LagSoliditetParser == 20

LagSoliditetV4 == 15

\* forandring = ((nu - prev) / prev) * 100 < -20, for prev > 0
FallandeOmsattning(nu, prev) == (nu - prev) * 100 < (0 - 20) * prev

\* negativa_ar of lines 1536-1540: the periods 0..3 with a negative result
NegativaAr(nts) ==
    Cardinality({i \in 0..3 :
        IsSome(nts[i + 1].arets_resultat) /\ nts[i + 1].arets_resultat.val < 0})

\* Rule 4 with the elif of line 1526 read as an if: a negative solvency is
\* flagged twice.
SoliditetFlaggorParser_NoElif(soliditet) ==
    IF IsSome(soliditet)
    THEN (IF soliditet.val < 0
          THEN <<RodFlagga("negativ_soliditet", "kritisk")>> ELSE <<>>)
         \o (IF soliditet.val < LagSoliditetParser
             THEN <<RodFlagga("lag_soliditet", "varning")>> ELSE <<>>)
    ELSE <<>>

\* Rule 4 of IXBRLParser.analyze_roda_flaggor (lines 1516-1533)
SoliditetFlaggorParser(soliditet) ==
    IF IsSome(soliditet)
    THEN IF soliditet.val < 0
         THEN <<RodFlagga("negativ_soliditet", "kritisk")>>
         ELSE IF soliditet.val < LagSoliditetParser
         THEN <<RodFlagga("lag_soliditet", "varning")>>
         ELSE <<>>
    ELSE <<>>

\* The solvency rule of the module-level analyze_roda_flaggor (lines 3607-3624)
SoliditetFlaggorV4(soliditet) ==
    IF IsSome(soliditet)
    THEN IF soliditet.val < 0
         THEN <<RodFlagga("negativ_soliditet", "kritisk")>>
         ELSE IF soliditet.val < LagSoliditetV4
         THEN <<RodFlagga("lag_soliditet", "varning")>>
         ELSE <<>>
    ELSE <<>>

\* an exception escapes the analysis
RaisedFlaggor == <<RodFlagga("exception", "raise")>>

\* The rules of IXBRLParser.analyze_roda_flaggor (lines 1483-1574) on the key
\* ratios nt of period0 and prev of period1, the share capital, and the key
\* ratios nts[i + 1] that the loop of rule 5 fetches for period i = 0..3.
ParserFlaggor(nt, prev, aktiekapital, nts) ==
    LET f1 == IF Truthy(nt.eget_kapital) /\ nt.eget_kapital.val < 0
              THEN <<RodFlagga("negativt_eget_kapital", "kritisk")>> ELSE <<>>
        f2 == IF /\ Truthy(aktiekapital) /\ Truthy(nt.eget_kapital)
                 /\ 2 * nt.eget_kapital.val < aktiekapital.val
              THEN <<RodFlagga("lagt_eget_kapital", "kritisk")>> ELSE <<>>
        f3 == IF /\ Truthy(nt.nettoomsattning) /\ Truthy(prev.nettoomsattning)
                 /\ prev.nettoomsattning.val > 0
                 /\ FallandeOmsattning(nt.nettoomsattning.val, prev.nettoomsattning.val)
              THEN <<RodFlagga("fallande_omsattning", "varning")>> ELSE <<>>
        f4 == SoliditetFlaggorParser(nt.soliditet)
        f5 == IF NegativaAr(nts) >= 2
              THEN <<RodFlagga("upprepade_forluster",
                               IF NegativaAr(nts) = 2 THEN "varning" ELSE "kritisk")>>
              ELSE <<>>
        f6 == IF /\ Truthy(nt.eget_kapital) /\ Truthy(nt.balansomslutning)
                 /\ nt.eget_kapital.val > 0
                 /\ nt.balansomslutning.val - nt.eget_kapital.val > 3 * nt.eget_kapital.val
              THEN <<RodFlagga("hog_skuldsattning", "varning")>> ELSE <<>>
        f7 == IF IsSome(nt.vinstmarginal) /\ nt.vinstmarginal.val < 0 - 1000
              THEN <<RodFlagga("negativ_vinstmarginal", "varning")>> ELSE <<>>
    IN  IF \/ nt.raised \/ prev.raised \/ aktiekapital = Raised
           \/ \E i \in 0..3 : nts[i + 1].raised
        THEN RaisedFlaggor
        ELSE f1 \o f2 \o f3 \o f4 \o f5 \o f6 \o f7

\* IXBRLParser.analyze_roda_flaggor (lines 1477-1574).  The code calls
\* get_nyckeltal for period0 and period1 (lines 1480-1481) and again for
\* period0..3 (line 1538); the calls of one period return the same record.
analyze_roda_flaggor_parser(doc) ==
    WithValue(
        [aktiekapital |-> get_value(doc, Aktiekapital, "balans0"),
         nts |-> [i \in 0..3 |-> get_nyckeltal(doc, PeriodOf(i))]],
        LAMBDA a :
            ParserFlaggor(a.nts[0], a.nts[1], a.aktiekapital,
                          <<a.nts[0], a.nts[1], a.nts[2], a.nts[3]>>))

\* the module-level analyze_roda_flaggor (lines 3580-3636); nyckeltal_prev is
\* always a Nyckeltal at its call site, so it is truthy
analyze_roda_flaggor(nt, prev) ==
    LET f1 == IF Truthy(nt.eget_kapital) /\ nt.eget_kapital.val < 0
              THEN <<RodFlagga("negativt_eget_kapital", "kritisk")>> ELSE <<>>
        f2 == IF /\ Truthy(nt.nettoomsattning) /\ Truthy(prev.nettoomsattning)
                 /\ prev.nettoomsattning.val > 0
                 /\ FallandeOmsattning(nt.nettoomsattning.val, prev.nettoomsattning.val)
              THEN <<RodFlagga("fallande_omsattning", "varning")>> ELSE <<>>
        f3 == SoliditetFlaggorV4(nt.soliditet)
        f4 == IF IsSome(nt.vinstmarginal) /\ nt.vinstmarginal.val < 0 - 1000
              THEN <<RodFlagga("negativ_vinstmarginal", "varning")>> ELSE <<>>
    IN  IF nt.raised \/ prev.raised THEN RaisedFlaggor ELSE f1 \o f2 \o f3 \o f4

(***************************************************************************)
(* Specification SpecLocate: documents of up to MaxTags tags whose names   *)
(* overlap as substrings and differ in case and namespace prefix, and      *)
(* calls of _get_value with and without a context.                         *)
(***************************************************************************)
MaxTags == 2

LocateNames ==
    {EgetKapital,
     <<"s", "e", ":", "e", "g", "e", "t", "k", "a", "p", "i", "t", "a", "l">>,
     SummaEgetKapitalSkulder}

LocatePatterns == {EgetKapital, <<"s", "k", "u", "l", "d", "e", "r">>, Tillgangar}

LocateTags ==
    [name : LocateNames, contextref : {"balans0", "balans1"},
     text : {<<"5">>, <<"7">>, <<"x">>},
     format : {"none"}, scale : {Absent}, sign : {Absent}]

RECURSIVE DocsOfLen(_)
DocsOfLen(n) ==
    IF n = 0 THEN {<<>>}
    ELSE {Append(d, t) : d \in DocsOfLen(n - 1), t \in LocateTags}

InitLocate ==
    /\ soup \in UNION {DocsOfLen(n) : n \in 0..MaxTags}
    /\ call = NoCall
    /\ value = None
    /\ nyckeltal = NoNyckeltal
    /\ flaggor = <<>>
    /\ flaggor_v4 = <<>>
    /\ cache_manager = {}
    /\ token_manager = NoToken
    /\ clock = 0
    /\ last_set = <<>>
    /\ result = NoResult
    /\ api = NoApi

NextLocate ==
    \E pattern \in LocatePatterns, context \in {NoContext, "balans0", "balans1"} :
        CallGetValue(pattern, context)

SpecLocate == InitLocate /\ [][NextLocate]_vars

(***************************************************************************)
(* Specification SpecRisk: annual reports given by the facts they tag,     *)
(* and calls of get_nyckeltal and of the two risk analyses.                *)
(***************************************************************************)
\* how a fact is written on its tag; NoFact: the document has no such tag
Enc(text, scale, sign) == [text |-> text, scale |-> scale, sign |-> sign]

Num(text) == Enc(text, Absent, Absent)

NoFact == Enc(Absent, Absent, Absent)

Fact(name, contextref, e) ==
    [name |-> name, contextref |-> contextref, text |-> e.text,
     format |-> "none", scale |-> e.scale, sign |-> e.sign]

\* the tags of a statement in document order
Statement(f) ==
    SelectSeq(
        <<Fact(Nettoomsattning, "period0", f.no0),
          Fact(Nettoomsattning, "period1", f.no1),
          Fact(Soliditet, "balans0", f.sol),
          Fact(AretsResultat, "period0", f.ar0),
          Fact(AretsResultat, "period1", f.ar1),
          Fact(AretsResultat, "period2", f.ar2),
          Fact(AretsResultat, "period3", f.ar3),
          Fact(Tillgangar, "balans0", f.tg),
          Fact(Aktiekapital, "balans0", f.ak),
          Fact(EgetKapital, "balans0", f.ek),
          Fact(SummaEgetKapitalSkulder, "balans0", f.seks)>>,
        LAMBDA t : t.text # Absent)

NoFacts ==
    [no0 |-> NoFact, no1 |-> NoFact, sol |-> NoFact, ar0 |-> NoFact,
     ar1 |-> NoFact, ar2 |-> NoFact, ar3 |-> NoFact, tg |-> NoFact,
     ak |-> NoFact, ek |-> NoFact, seks |-> NoFact]

\* ratios: revenue, net income, equity, total assets, reported solvency
RatioFacts ==
    {[NoFacts EXCEPT !.no0 = no0, !.ar0 = ar0, !.ek = ek, !.tg = tg,
                     !.sol = sol, !.seks = seks] :
        no0 \in {NoFact, Num(<<"0">>), Num(<<"8", "0">>),
                 Num(<<"1", " ", "0", "0", "0", " ", "0", "0", "0">>)},
        ar0 \in {NoFact, Num(<<"0">>), Num(<<"1", "0">>), Num(<<"-", "7", "0">>),
                 Num(<<"5", "0", " ", "0", "0", "0">>)},
        ek \in {NoFact, Num(<<"-", "1", "0", "0">>), Num(<<"0">>), Num(<<"5", "0">>)},
        tg \in {NoFact, Num(<<"0">>), Num(<<"1", "0", "0">>)},
        sol \in {NoFact, Num(<<"1", "0">>)},
        seks \in {NoFact, Num(<<"1", "0", "0">>)}}

\* equity, share capital, solvency and debt
BalanceFacts ==
    {[NoFacts EXCEPT !.ek = ek, !.ak = ak, !.sol = sol, !.tg = tg,
                     !.ar0 = ar0, !.no0 = no0] :
        ek \in {NoFact, Enc(<<"5", "0">>, <<"3">>, <<"-">>), Num(<<"U2212", "5", "0">>),
                Num(<<"0">>), Num(<<"2", "0">>), Num(<<"5", "0">>),
                Num(<<"5", " ", "0", "0", "0", " ", "0", "0", "0">>)},
        ak \in {NoFact, Num(<<"1", "0", "0">>)},
        sol \in {NoFact, Num(<<"-", "5">>), Num(<<"0">>), Num(<<"1", "0">>),
                 Num(<<"1", "7">>), Num(<<"2", "5">>)},
        tg \in {NoFact, Num(<<"1", "0", "0">>), Num(<<"3", "0", "0">>)},
        ar0 \in {NoFact, Num(<<"-", "5", "0">>)},
        no0 \in {NoFact, Num(<<"8", "0">>)}}

\* net income of four years
ResultFacts ==
    {[NoFacts EXCEPT !.ar0 = ar0, !.ar1 = ar1, !.ar2 = ar2, !.ar3 = ar3,
                     !.no0 = no0] :
        ar0 \in {NoFact, Num(<<"-", "5", "0">>), Num(<<"0">>), Num(<<"5", "0">>)},
        ar1 \in {NoFact, Num(<<"-", "5", "0">>), Num(<<"0">>), Num(<<"5", "0">>)},
        ar2 \in {NoFact, Num(<<"-", "5", "0">>), Num(<<"0">>), Num(<<"5", "0">>)},
        ar3 \in {NoFact, Num(<<"-", "5", "0">>), Num(<<"0">>), Num(<<"5", "0">>)},
        no0 \in {NoFact, Num(<<"8", "0">>)}}

\* revenue of the current and the prior year
RevenueFacts ==
    {[NoFacts EXCEPT !.no0 = no0, !.no1 = no1, !.ar0 = ar0] :
        no0 \in {NoFact, Num(<<"0">>), Num(<<"7", "0">>), Num(<<"7", "9">>),
                 Num(<<"8", "0">>), Num(<<"1", "2", "0">>)},
        no1 \in {NoFact, Num(<<"-", "1", "0", "0">>), Num(<<"0">>),
                 Num(<<"1", "0", "0">>)},
        ar0 \in {NoFact, Num(<<"-", "5", "0">>)}}

RiskStatements ==
    {Statement(f) : f \in RatioFacts \cup BalanceFacts \cup ResultFacts \cup RevenueFacts}

InitRisk ==
    /\ soup \in RiskStatements
    /\ call = NoCall
    /\ value = None
    /\ nyckeltal = NoNyckeltal
    /\ flaggor = <<>>
    /\ flaggor_v4 = <<>>
    /\ cache_manager = {}
    /\ token_manager = NoToken
    /\ clock = 0
    /\ last_set = <<>>
    /\ result = NoResult
    /\ api = NoApi

\* parser.get_nyckeltal(period)
CallGetNyckeltal(period) ==
    /\ call' = [op |-> "get_nyckeltal", pattern |-> <<>>, context |-> period]
    /\ nyckeltal' = get_nyckeltal(soup, period)
    /\ value' = None
    /\ flaggor' = <<>>
    /\ flaggor_v4' = <<>>
    /\ UNCHANGED <<soup, result, api,
                 cache_manager, token_manager, clock, last_set>>

\* parser.analyze_roda_flaggor()
CallAnalyzeParser ==
    /\ call' = [op |-> "IXBRLParser.analyze_roda_flaggor", pattern |-> <<>>,
                context |-> NoContext]
    /\ flaggor' = analyze_roda_flaggor_parser(soup)
    /\ nyckeltal' = NoNyckeltal
    /\ value' = None
    /\ flaggor_v4' = <<>>
    /\ UNCHANGED <<soup, result, api,
                 cache_manager, token_manager, clock, last_set>>

\* fetch_full_arsredovisning, lines 3701-3702 and 3747: the key ratios of the
\* current and the prior year, and the module-level analysis of them
CallAnalyzeV4 ==
    \E nts \in {[i \in 0..1 |-> get_nyckeltal(soup, PeriodOf(i))]} :
        /\ call' = [op |-> "analyze_roda_flaggor", pattern |-> <<>>,
                    context |-> NoContext]
        /\ nyckeltal' = nts[0]
        /\ flaggor_v4' = analyze_roda_flaggor(nts[0], nts[1])
        /\ flaggor' = <<>>
        /\ value' = None
        /\ UNCHANGED <<soup, result, api,
                 cache_manager, token_manager, clock, last_set>>

NextRisk ==
    \/ \E period \in {"period0", "period1"} : CallGetNyckeltal(period)
    \/ CallAnalyzeParser
    \/ CallAnalyzeV4

SpecRisk == InitRisk /\ [][NextRisk]_vars

C2_KeepsFraction ==
    ( /\ call.op = "_get_value"
      /\ soup[1].scale \in {Absent, <<"0">>}
      /\ soup[1].sign = Absent
      /\ \/ /\ soup[1].text = <<"1", ".", "2", "3", "4", ",", "5", "6">>
            /\ soup[1].format = "numcommadecimal"
         \/ /\ soup[1].text = <<"1", ",", "2", "3", "4", ".", "5", "6">>
            /\ soup[1].format = "numdotdecimal"
         \/ /\ soup[1].text = <<"1", " ", "2", "3", "4", ",", "5", "6">>
            /\ soup[1].format = "none" )
    => (IsSome(value) /\ value.val * 100 = 123456)

\* C2, amended: with scale 0 and no sign attribute, the three encodings are all
\* read as the decimal 1234.56 (the separators are normalised by the format),
\* and _get_value returns its integer part, 1234.
C2_IntegerPart ==
    ( /\ call.op = "_get_value"
      /\ soup[1].scale \in {Absent, <<"0">>}
      /\ soup[1].sign = Absent
      /\ \/ /\ soup[1].text = <<"1", ".", "2", "3", "4", ",", "5", "6">>
            /\ soup[1].format = "numcommadecimal"
         \/ /\ soup[1].text = <<"1", ",", "2", "3", "4", ".", "5", "6">>
            /\ soup[1].format = "numdotdecimal"
         \/ /\ soup[1].text = <<"1", " ", "2", "3", "4", ",", "5", "6">>
            /\ soup[1].format = "none" )
    => value = Some(1234)

\* C2: '1.234,56' under the comma-decimal format has been resolved to 1234.
C2_Witness ==
    /\ call.op = "_get_value"
    /\ soup[1].text = <<"1", ".", "2", "3", "4", ",", "5", "6">>
    /\ soup[1].format = "numcommadecimal"
    /\ soup[1].scale = Absent
    /\ soup[1].sign = Absent
    /\ value = Some(1234)

\* C3, as stated: for every text, format, scale and sign, _get_value returns a
\* number or None and never raises.
C3_NeverRaises == call.op = "_get_value" => value.kind \in {"value", "none"}

(***************************************************************************)
(* Properties of the Fact Locator, under SpecLocate.  The texts of the     *)
(* tags are '5', '7' and 'x', which normalise to 5, 7 and no value.        *)
(***************************************************************************)
\* C4: _get_value(pattern, context) returns the normalised value of the first
\* tag, in document order, whose name contains pattern as a case-insensitive
\* substring and, when a context is given, whose contextref is that context; a
\* tag with another contextref never supplies the value; with no such tag it
\* returns None.
C4_FirstMatchingTag ==
    call.op = "_get_value" =>
        LET p == Lower(call.pattern)
            Within(name) ==
                \E k \in 0..(Len(name) - Len(p)) :
                    \A j \in 1..Len(p) : Lower(name)[k + j] = p[j]
            Qualifies(i) ==
                /\ Within(soup[i].name)
                /\ call.context # NoContext => soup[i].contextref = call.context
            Normalised(t) ==
                CASE t.text = <<"5">> -> Some(5)
                  [] t.text = <<"7">> -> Some(7)
                  [] OTHER -> None
        IN  IF \E i \in 1..Len(soup) : Qualifies(i)
            THEN \E i \in 1..Len(soup) :
                    /\ Qualifies(i)
                    /\ \A j \in 1..(i - 1) : ~Qualifies(j)
                    /\ value = Normalised(soup[i])
            ELSE value = None

\* C4: the first tag matches the name but lies in another context, and the
\* call has returned the value of the second tag, whose name carries a
\* namespace prefix and differs in case.
C4_Witness ==
    /\ call.op = "_get_value"
    /\ call.pattern = EgetKapital
    /\ call.context = "balans1"
    /\ Len(soup) = 2
    /\ soup[1].name = EgetKapital
    /\ soup[1].contextref = "balans0"
    /\ soup[1].text = <<"5">>
    /\ soup[2].name = <<"s", "e", ":", "e", "g", "e", "t", "k", "a", "p", "i", "t", "a", "l">>
    /\ soup[2].contextref = "balans1"
    /\ soup[2].text = <<"7">>
    /\ value = Some(7)

(***************************************************************************)
(* Properties of the key ratios and of the Risk Rule Engine, under         *)
(* SpecRisk.  Ratios are in hundredths of a percent: 5.0 is 500.           *)
(***************************************************************************)
\* C5, as stated: after berakna_nyckeltal the profit margin is defined exactly
\* when revenue and net income are both present and revenue is non-zero, and
\* is then net income / revenue * 100 rounded to 2 decimals (1 000 000 and
\* 50 000 give 5.0); return on equity is defined exactly when equity > 0 and
\* net income is present, and is then net income / equity * 100 rounded to 2
\* decimals; otherwise the ratio is None.
C5_RatiosWhenPresent ==
    (call.op = "get_nyckeltal" /\ ~nyckeltal.raised) =>
        LET no == nyckeltal.nettoomsattning
            ar == nyckeltal.arets_resultat
            ek == nyckeltal.eget_kapital
        IN  /\ IF IsSome(no) /\ no.val # 0 /\ IsSome(ar)
               THEN nyckeltal.vinstmarginal = Some(RoundPercent(ar.val, no.val))
               ELSE nyckeltal.vinstmarginal = None
            /\ IF IsSome(ek) /\ ek.val > 0 /\ IsSome(ar)
               THEN nyckeltal.roe = Some(RoundPercent(ar.val, ek.val))
               ELSE nyckeltal.roe = None
            /\ (no = Some(1000000) /\ ar = Some(50000))
               => nyckeltal.vinstmarginal = Some(500)

\* C6, as stated: the soliditet of the record get_nyckeltal returns is derived:
\* it is equity / total assets * 100 rounded to 2 decimals whenever both are
\* present and total assets is non-zero, and None when either is absent.
C6_SoliditetDerived ==
    (call.op = "get_nyckeltal" /\ ~nyckeltal.raised) =>
        LET ek == nyckeltal.eget_kapital
            bo == nyckeltal.balansomslutning
        IN  /\ (IsSome(ek) /\ IsSome(bo) /\ bo.val # 0)
               => /\ IsSome(nyckeltal.soliditet)
                  /\ nyckeltal.soliditet.val * 100 = RoundPercent(ek.val, bo.val)
            /\ (~IsSome(ek) \/ ~IsSome(bo)) => nyckeltal.soliditet = None

\* C6, amended: the soliditet of the record get_nyckeltal returns is the
\* reported figure: the normalised value of the first tag named Soliditet in
\* the balance context of the period, and None when the report has no such
\* tag, whatever equity and total assets are.
C6_SoliditetReported ==
    (call.op = "get_nyckeltal" /\ ~nyckeltal.raised) =>
        LET tagged == {i \in 1..Len(soup) :
                          /\ soup[i].name = Soliditet
                          /\ soup[i].contextref = BalansOf[call.context]}
        IN  IF tagged = {}
            THEN nyckeltal.soliditet = None
            ELSE \E i \in tagged :
                    /\ \A j \in tagged : i <= j
                    /\ nyckeltal.soliditet = TagValue(soup[i])

\* C6: get_nyckeltal has returned equity 50, total assets 100 and the reported
\* solvency 10, where the derived ratio is 50.
C6_Witness ==
    /\ call.op = "get_nyckeltal"
    /\ nyckeltal.eget_kapital = Some(50)
    /\ nyckeltal.balansomslutning = Some(100)
    /\ nyckeltal.soliditet = Some(10)

\* C7: in both analyses, a statement with equity < 0 yields exactly one flag
\* negativt_eget_kapital, of severity kritisk, and none when equity is >= 0 or
\* absent; a statement whose only facts are a positive equity and a solvency
\* of 10 yields exactly one flag, the varning lag_soliditet; negativ_soliditet
\* and lag_soliditet are never both emitted.
C7_EquityAndSolvencyFlags ==
    LET ek == get_value(soup, EgetKapital, "balans0")
        sol == get_value(soup, Soliditet, "balans0")
        Kind(flags, typ) == {i \in 1..Len(flags) : flags[i].typ = typ}
        Rules(flags) ==
            /\ IF IsSome(ek) /\ ek.val < 0
               THEN \E i \in 1..Len(flags) :
                        /\ Kind(flags, "negativt_eget_kapital") = {i}
                        /\ flags[i].allvarlighet = "kritisk"
               ELSE Kind(flags, "negativt_eget_kapital") = {}
            /\ ( /\ {soup[i].name : i \in 1..Len(soup)} = {EgetKapital, Soliditet}
                 /\ Len(soup) = 2
                 /\ IsSome(ek) /\ ek.val > 0 /\ sol = Some(10) )
               => flags = <<RodFlagga("lag_soliditet", "varning")>>
            /\ Kind(flags, "negativ_soliditet") = {} \/ Kind(flags, "lag_soliditet") = {}
    IN  /\ call.op = "IXBRLParser.analyze_roda_flaggor" => Rules(flaggor)
        /\ call.op = "analyze_roda_flaggor" => Rules(flaggor_v4)

\* C7: the parser's analysis of a statement of equity 5 000 000 and solvency 10
\* has returned the single warning lag_soliditet.
C7_Witness ==
    /\ call.op = "IXBRLParser.analyze_roda_flaggor"
    /\ Len(soup) = 2
    /\ get_value(soup, EgetKapital, "balans0") = Some(5000000)
    /\ get_value(soup, Soliditet, "balans0") = Some(10)
    /\ flaggor = <<RodFlagga("lag_soliditet", "varning")>>

\* C8, as stated: upprepade_forluster is emitted exactly when period0..period3
\* hold at least 2 consecutive years of negative net income, as a varning when
\* the longest run of consecutive loss years is 2 and as kritisk when it is 3
\* or more; loss years separated by another year are not counted together.
C8_ConsecutiveLosses ==
    call.op = "IXBRLParser.analyze_roda_flaggor" =>
        LET Loss(i) ==
                LET ar == get_value(soup, AretsResultat, PeriodOf(i))
                IN  IsSome(ar) /\ ar.val < 0
            Run(n) == \E i \in 0..(4 - n) : \A j \in i..(i + n - 1) : Loss(j)
            hits == {i \in 1..Len(flaggor) : flaggor[i].typ = "upprepade_forluster"}
        IN  IF Run(2)
            THEN /\ Cardinality(hits) = 1
                 /\ \A i \in hits :
                        flaggor[i].allvarlighet = IF Run(3) THEN "kritisk" ELSE "varning"
            ELSE hits = {}

\* C9, as stated: whenever equity and share capital are both present and
\* equity < share capital / 2, equity 0 and negative equity included, the
\* parser's analysis emits exactly one kritisk flag lagt_eget_kapital; it
\* emits none when either is absent or equity >= share capital / 2.
C9_LagtEgetKapital ==
    call.op = "IXBRLParser.analyze_roda_flaggor" =>
        LET ek == get_value(soup, EgetKapital, "balans0")
            ak == get_value(soup, Aktiekapital, "balans0")
            hits == {i \in 1..Len(flaggor) : flaggor[i].typ = "lagt_eget_kapital"}
        IN  IF IsSome(ek) /\ IsSome(ak) /\ 2 * ek.val < ak.val
            THEN /\ Cardinality(hits) = 1
                 /\ \A i \in hits : flaggor[i].allvarlighet = "kritisk"
            ELSE hits = {}

\* C10, as stated: in both analyses, whenever current and prior revenue are
\* both present, prior revenue > 0 and (current - prior) / prior * 100 < -20,
\* a current revenue of 0 included, exactly one varning fallande_omsattning is
\* emitted; none is emitted when prior revenue is absent or <= 0 or the decline
\* is 20 % or less.
C10_FallandeOmsattning ==
    LET nu == get_value(soup, Nettoomsattning, "period0")
        prev == get_value(soup, Nettoomsattning, "period1")
        Rule(flags) ==
            LET hits == {i \in 1..Len(flags) : flags[i].typ = "fallande_omsattning"}
            IN  IF /\ IsSome(nu) /\ IsSome(prev) /\ prev.val > 0
                   /\ (nu.val - prev.val) * 100 < (0 - 20) * prev.val
                THEN /\ Cardinality(hits) = 1
                     /\ \A i \in hits : flags[i].allvarlighet = "varning"
                ELSE hits = {}
    IN  /\ call.op = "IXBRLParser.analyze_roda_flaggor" => Rule(flaggor)
        /\ call.op = "analyze_roda_flaggor" => Rule(flaggor_v4)

\* C11, as stated: the low-solvency rule uses one threshold: for every reported
\* solvency s >= 0, the parser's analysis emits lag_soliditet if and only if
\* the module-level analysis of the same report emits it.
C11_OneThreshold ==
    call.op = "IXBRLParser.analyze_roda_flaggor" =>
        LET sol == get_value(soup, Soliditet, "balans0")
            v4 == analyze_roda_flaggor(get_nyckeltal(soup, "period0"),
                                       get_nyckeltal(soup, "period1"))
            Low(flags) == \E i \in 1..Len(flags) : flags[i].typ = "lag_soliditet"
        IN  (IsSome(sol) /\ sol.val >= 0) => (Low(flaggor) <=> Low(v4))

(***************************************************************************)
(* fetch_full_arsredovisning and the tool bolagsverket_risk_check.         *)
(***************************************************************************)
\* What fetch_full_arsredovisning (lines 3699-3750) takes from the parser: the
\* key ratios of period0, the multi-period series flerarsdata (lines
\* 3716-3721) and the flags of the module-level analysis.  The calls of
\* get_nyckeltal for one period return the same record.
fetch_full_arsredovisning(doc) ==
    WithValue(
        [i \in 0..4 |-> get_nyckeltal(doc, PeriodOf(i))],
        LAMBDA nts :
            [nyckeltal |-> nts[0],
             flerarsdata |->
                SelectSeq(
                    [i \in 1..5 |-> [period |-> i - 1, nyckeltal |-> nts[i - 1]]],
                    LAMBDA e : \/ Truthy(e.nyckeltal.nettoomsattning)
                               \/ Truthy(e.nyckeltal.arets_resultat)),
             roda_flaggor |-> analyze_roda_flaggor(nts[0], nts[1]),
             raised |-> \E i \in 0..4 : nts[i].raised])

\* A calendar date; the day number of a date (days since 0000-03-01), as
\* datetime subtraction counts days.
Date(y, m, d) == [y |-> y, m |-> m, d |-> d]

DayNumber(date) ==
    LET y == IF date.m <= 2 THEN date.y - 1 ELSE date.y
        mp == IF date.m <= 2 THEN date.m + 9 ELSE date.m - 3
    IN  365 * y + y \div 4 - y \div 100 + y \div 400
        + (153 * mp + 2) \div 5 + date.d - 1

\* CompanyInfo.registreringsdatum that is not a date: the default "-"
NoDate == [y |-> 0, m |-> 0, d |-> 0]

\* A CompanyInfo field that is None
PyNone == "None"

\* the flag of one registration-status rule (lines 4041-4093)
StatusFlagga(holds, typ, allvarlighet) ==
    IF holds THEN <<RodFlagga(typ, allvarlighet)>> ELSE <<>>

\* age_days < 365 * 2 (lines 4095-4099); strptime fails on "-" and the flag
\* is skipped
Nyregistrerat(registreringsdatum, now) ==
    /\ registreringsdatum # NoDate
    /\ DayNumber(now) - DayNumber(registreringsdatum) < 365 * 2

\* Lines 4038-4108: the flags of the annual report, then the flags of the
\* registration status, in this order.
AllaFlaggor(roda_flaggor, company_info, now) ==
    roda_flaggor
    \o StatusFlagga(~company_info.pagaende_konkurs.is_none, "pagaende_konkurs", "kritisk")
    \o StatusFlagga(~company_info.pagaende_likvidation.is_none, "pagaende_likvidation", "kritisk")
    \o StatusFlagga(company_info.status = "Avregistrerad", "avregistrerad", "kritisk")
    \o StatusFlagga(company_info.verksam_organisation = "False", "ej_verksam", "info")
    \o StatusFlagga(company_info.reklamsparr = "True", "reklamsparr", "info")
    \o StatusFlagga(Nyregistrerat(company_info.registreringsdatum, now), "nyregistrerat", "info")

\* the number of flags of a severity (kritiska, varningar, info: lines 4111-4113)
AntalFlaggor(alla_flaggor, allvarlighet) ==
    Cardinality({i \in 1..Len(alla_flaggor) : alla_flaggor[i].allvarlighet = allvarlighet})

\* risk_score = len(kritiska) * 3 + len(varningar) * 1 (line 4128)
RiskScore(alla_flaggor) ==
    AntalFlaggor(alla_flaggor, "kritisk") * 3 + AntalFlaggor(alla_flaggor, "varning") * 1

\* risk_level with the bands cut at > 3 and > 1 instead of >= 3 and >= 1
RiskLevel_Strict(risk_score) ==
    IF risk_score > 3 THEN "HOG" ELSE IF risk_score > 1 THEN "MEDIUM" ELSE "LAG"

\* risk_level (line 4129)
RiskLevel(risk_score) ==
    IF risk_score >= 3 THEN "HOG" ELSE IF risk_score >= 1 THEN "MEDIUM" ELSE "LAG"

\* handle_error(...): the tool returns an error response
ErrorResult(op) ==
    [kind |-> op, error |-> TRUE, alla_flaggor |-> <<>>, risk_score |-> None,
     risk_level |-> "none"]

\* The report of bolagsverket_risk_check (lines 4021-4170).  With no flag at
\* all the report says "Inga varningar" and holds neither score nor level
\* (lines 4115-4125).
RiskCheckResult(full, company_info, now) ==
    LET alla_flaggor == AllaFlaggor(full.roda_flaggor, company_info, now)
    IN  IF full.raised THEN ErrorResult("bolagsverket_risk_check")
        ELSE [kind |-> "bolagsverket_risk_check", error |-> FALSE,
              alla_flaggor |-> alla_flaggor,
              risk_score |-> IF alla_flaggor = <<>> THEN None
                             ELSE Some(RiskScore(alla_flaggor)),
              risk_level |-> IF alla_flaggor = <<>> THEN "none"
                             ELSE RiskLevel(RiskScore(alla_flaggor))]

(***************************************************************************)
(* Specification SpecCheck: the latest annual report of a company, its     *)
(* registration status and the clock, and calls of bolagsverket_risk_check.*)
(***************************************************************************)
CheckFacts ==
    {[NoFacts EXCEPT !.ek = ek, !.sol = sol, !.no0 = rev[1], !.no1 = rev[2],
                     !.ar0 = res[1], !.ar1 = res[2]] :
        ek \in {NoFact, Num(<<"-", "1", "0", "0">>)},
        sol \in {NoFact, Num(<<"-", "5">>), Num(<<"1", "0">>)},
        rev \in {<<NoFact, NoFact>>, <<Num(<<"7", "0">>), Num(<<"1", "0", "0">>)>>},
        res \in {<<NoFact, NoFact>>, <<Num(<<"-", "5", "0">>), Num(<<"-", "5", "0">>)>>}}

\* registreringsdatum and datetime.now()
RegistrationCases ==
    {<<NoDate, Date(2024, 3, 1)>>,
     <<Date(2020, 1, 15), Date(2024, 3, 1)>>,
     <<Date(2022, 3, 1), Date(2024, 3, 1)>>,
     <<Date(2022, 3, 2), Date(2024, 3, 1)>>,
     <<Date(2021, 6, 16), Date(2023, 6, 15)>>}

\* pagaende_konkurs / pagaende_likvidation: None, or the dict of the procedure
NoProcedure == [is_none |-> TRUE, datum |-> ""]

Procedure == [is_none |-> FALSE, datum |-> "2024-01-15"]

CompanyInfos ==
    [pagaende_konkurs : {NoProcedure, Procedure},
     pagaende_likvidation : {NoProcedure, Procedure},
     status : {"Aktiv", "Avregistrerad"},
     verksam_organisation : {PyNone, "True", "False"},
     reklamsparr : {PyNone, "True", "False"},
     registreringsdatum : {r[1] : r \in RegistrationCases}]

InitCheck ==
    /\ soup \in {Statement(f) : f \in CheckFacts}
    /\ call = NoCall
    /\ value = None
    /\ nyckeltal = NoNyckeltal
    /\ flaggor = <<>>
    /\ flaggor_v4 = <<>>
    /\ cache_manager = {}
    /\ token_manager = NoToken
    /\ clock = 0
    /\ last_set = <<>>
    /\ result = NoResult
    /\ \E company_info \in CompanyInfos, r \in RegistrationCases :
            /\ company_info.registreringsdatum = r[1]
            /\ api = [kind |-> "company", company_info |-> company_info, now |-> r[2]]

\* bolagsverket_risk_check(params) when the org number is valid and the
\* company and its latest annual report are fetched.
CallRiskCheck ==
    /\ call' = [op |-> "bolagsverket_risk_check", pattern |-> <<>>, context |-> "ok"]
    /\ result' = RiskCheckResult(fetch_full_arsredovisning(soup),
                                 api.company_info, api.now)
    /\ UNCHANGED <<soup, value, nyckeltal, flaggor, flaggor_v4, api,
                 cache_manager, token_manager, clock, last_set>>

\* bolagsverket_risk_check(params) when validate_org_nummer rejects the number
\* (line 4023) or a fetch raises (line 4169)
CallRiskCheckFails ==
    /\ call' = [op |-> "bolagsverket_risk_check", pattern |-> <<>>,
                context |-> "error"]
    /\ result' = ErrorResult("bolagsverket_risk_check")
    /\ UNCHANGED <<soup, value, nyckeltal, flaggor, flaggor_v4, api,
                 cache_manager, token_manager, clock, last_set>>

NextCheck == CallRiskCheck \/ CallRiskCheckFails

SpecCheck == InitCheck /\ [][NextCheck]_vars

(***************************************************************************)
(* Properties of bolagsverket_risk_check, under SpecCheck.                 *)
(***************************************************************************)
\* C12, as stated: whenever negative equity, a revenue decline of more than
\* 20 %, a negative or a low solvency, a profit margin below -10 % or repeated
\* losses (two or more loss years) holds in the latest annual report, the
\* corresponding flag is among the flags bolagsverket_risk_check reports.
C12_EveryRuleReported ==
    (call.op = "bolagsverket_risk_check" /\ ~result.error) =>
        LET ek == get_value(soup, EgetKapital, "balans0")
            sol == get_value(soup, Soliditet, "balans0")
            nu == get_value(soup, Nettoomsattning, "period0")
            prev == get_value(soup, Nettoomsattning, "period1")
            Ar(i) == get_value(soup, AretsResultat, PeriodOf(i))
            Reported(typ) ==
                \E i \in 1..Len(result.alla_flaggor) : result.alla_flaggor[i].typ = typ
        IN  /\ (IsSome(ek) /\ ek.val < 0) => Reported("negativt_eget_kapital")
            /\ ( /\ IsSome(nu) /\ IsSome(prev) /\ prev.val > 0
                 /\ (nu.val - prev.val) * 100 < (0 - 20) * prev.val )
               => Reported("fallande_omsattning")
            /\ (IsSome(sol) /\ sol.val < 0) => Reported("negativ_soliditet")
            /\ (IsSome(sol) /\ sol.val >= 0 /\ sol.val < 15) => Reported("lag_soliditet")
            /\ ( /\ IsSome(nu) /\ nu.val > 0 /\ IsSome(Ar(0))
                 /\ Ar(0).val * 100 < (0 - 10) * nu.val )
               => Reported("negativ_vinstmarginal")
            /\ Cardinality({i \in 0..3 : IsSome(Ar(i)) /\ Ar(i).val < 0}) >= 2
               => Reported("upprepade_forluster")

\* C13, as stated: with a registration-status record, pending bankruptcy,
\* pending liquidation and deregistered status each add exactly one kritisk
\* flag, an inactive marking, an advertising block and a registration less
\* than 24 months old each add exactly one info flag, each flag if and only if
\* its condition holds, and the flags of the annual report stay as they are,
\* in front.
C13_StatusFlags ==
    (call.op = "bolagsverket_risk_check" /\ ~result.error) =>
        LET ci == api.company_info
            reg == ci.registreringsdatum
            months == (api.now.y - reg.y) * 12 + (api.now.m - reg.m)
                      - (IF api.now.d < reg.d THEN 1 ELSE 0)
            report == analyze_roda_flaggor(get_nyckeltal(soup, "period0"),
                                           get_nyckeltal(soup, "period1"))
            flags == result.alla_flaggor
            Added(holds, typ, allvarlighet) ==
                LET hits == {i \in 1..Len(flags) : flags[i].typ = typ}
                IN  IF holds
                    THEN /\ Cardinality(hits) = 1
                         /\ \A i \in hits :
                                i > Len(report) /\ flags[i].allvarlighet = allvarlighet
                    ELSE hits = {}
        IN  /\ Added(~ci.pagaende_konkurs.is_none, "pagaende_konkurs", "kritisk")
            /\ Added(~ci.pagaende_likvidation.is_none, "pagaende_likvidation", "kritisk")
            /\ Added(ci.status = "Avregistrerad", "avregistrerad", "kritisk")
            /\ Added(ci.verksam_organisation = "False", "ej_verksam", "info")
            /\ Added(ci.reklamsparr = "True", "reklamsparr", "info")
            /\ Added(reg # NoDate /\ months < 24, "nyregistrerat", "info")
            /\ Len(flags) >= Len(report)
            /\ SubSeq(flags, 1, Len(report)) = report

\* C14, as stated: the risk score is 3 * (number of kritisk flags) + (number
\* of varning flags), and the reported level is high iff the score is >= 3,
\* medium iff it is 1 or 2, and low iff it is 0.
C14_ScoreAndLevel ==
    (call.op = "bolagsverket_risk_check" /\ ~result.error) =>
        LET flags == result.alla_flaggor
            Count(a) == Cardinality({i \in 1..Len(flags) : flags[i].allvarlighet = a})
            score == 3 * Count("kritisk") + Count("varning")
        IN  /\ result.risk_score = Some(score)
            /\ result.risk_level = "HOG" <=> score >= 3
            /\ result.risk_level = "MEDIUM" <=> score \in {1, 2}
            /\ result.risk_level = "LAG" <=> score = 0

\* C14, amended: when the tool reports at least one flag, the risk score is
\* 3 * (number of kritisk flags) + (number of varning flags) and the level is
\* high iff the score is >= 3, medium iff it is 1 or 2, low iff it is 0 (a
\* single kritisk flag gives high, info flags alone give low); when it
\* reports no flag at all, it reports neither a score nor a level.
C14_ScoreAndLevelWhenFlagged ==
    (call.op = "bolagsverket_risk_check" /\ ~result.error) =>
        LET flags == result.alla_flaggor
            Count(a) == Cardinality({i \in 1..Len(flags) : flags[i].allvarlighet = a})
            score == 3 * Count("kritisk") + Count("varning")
        IN  IF flags = <<>>
            THEN result.risk_score = None /\ result.risk_level = "none"
            ELSE /\ result.risk_score = Some(score)
                 /\ result.risk_level \in {"HOG", "MEDIUM", "LAG"}
                 /\ result.risk_level = "HOG" <=> score >= 3
                 /\ result.risk_level = "MEDIUM" <=> score \in {1, 2}
                 /\ result.risk_level = "LAG" <=> score = 0
                 /\ Count("kritisk") >= 1 => result.risk_level = "HOG"
                 /\ Count("info") = Len(flags) => result.risk_level = "LAG"

\* C14: the tool has reported one kritisk flag and nothing else, at level high.
C14_Witness ==
    /\ call.op = "bolagsverket_risk_check"
    /\ ~result.error
    /\ Len(result.alla_flaggor) = 1
    /\ result.alla_flaggor[1].allvarlighet = "kritisk"
    /\ result.risk_score = Some(3)
    /\ result.risk_level = "HOG"

(***************************************************************************)
(* Specification SpecSeries: annual reports that tag revenue and net       *)
(* income in some of the periods 0..4, and calls of                        *)
(* fetch_full_arsredovisning.                                              *)
(***************************************************************************)
\* what one period tags: nothing, a revenue, a loss, or a revenue and a net
\* income of exactly 0
YearFacts ==
    {<<NoFact, NoFact>>, <<Num(<<"8", "0">>), NoFact>>,
     <<NoFact, Num(<<"-", "5", "0">>)>>, <<Num(<<"0">>), Num(<<"0">>)>>}

\* the tags of the periods 0..4 in document order
SeriesStatement(years) ==
    SelectSeq(
        [k \in 1..10 |->
            IF k % 2 = 1
            THEN Fact(Nettoomsattning, PeriodOf((k - 1) \div 2), years[(k + 1) \div 2][1])
            ELSE Fact(AretsResultat, PeriodOf((k - 1) \div 2), years[k \div 2][2])],
        LAMBDA t : t.text # Absent)

InitSeries ==
    /\ soup \in {SeriesStatement(years) : years \in [1..5 -> YearFacts]}
    /\ call = NoCall
    /\ value = None
    /\ nyckeltal = NoNyckeltal
    /\ flaggor = <<>>
    /\ flaggor_v4 = <<>>
    /\ cache_manager = {}
    /\ token_manager = NoToken
    /\ clock = 0
    /\ last_set = <<>>
    /\ result = NoResult
    /\ api = NoApi

\* fetch_full_arsredovisning(org_nummer, 0) when the document is fetched
CallFetchFull ==
    \E full \in {fetch_full_arsredovisning(soup)} :
        /\ call' = [op |-> "fetch_full_arsredovisning", pattern |-> <<>>,
                    context |-> "ok"]
        /\ result' = [kind |-> "fetch_full_arsredovisning", error |-> full.raised,
                      flerarsdata |-> full.flerarsdata,
                      roda_flaggor |-> full.roda_flaggor]
        /\ nyckeltal' = full.nyckeltal
        /\ UNCHANGED <<soup, value, flaggor, flaggor_v4, api,
                 cache_manager, token_manager, clock, last_set>>

\* fetch_full_arsredovisning when no document is found or the download fails
\* (lines 3680-3697): the exception reaches the caller
CallFetchFullFails ==
    /\ call' = [op |-> "fetch_full_arsredovisning", pattern |-> <<>>,
                context |-> "error"]
    /\ result' = [kind |-> "fetch_full_arsredovisning", error |-> TRUE,
                  flerarsdata |-> <<>>, roda_flaggor |-> <<>>]
    /\ nyckeltal' = NoNyckeltal
    /\ UNCHANGED <<soup, value, flaggor, flaggor_v4, api,
                 cache_manager, token_manager, clock, last_set>>

NextSeries == CallFetchFull \/ CallFetchFullFails

SpecSeries == InitSeries /\ [][NextSeries]_vars

\* C15, as stated: flerarsdata stops at the first period index of 0..4 that
\* yields neither revenue nor net income: the periods present are 0..k-1 in
\* increasing order, k being the first index with neither, and no period after
\* a missing one is included.
C15_ContiguousPrefix ==
    (call.op = "fetch_full_arsredovisning" /\ ~result.error) =>
        LET Yields(i) ==
                \/ IsSome(get_value(soup, Nettoomsattning, PeriodOf(i)))
                \/ IsSome(get_value(soup, AretsResultat, PeriodOf(i)))
            missing == {i \in 0..4 : ~Yields(i)}
            k == IF missing = {} THEN 5
                 ELSE CHOOSE i \in missing : \A j \in missing : i <= j
        IN  /\ Len(result.flerarsdata) = k
            /\ \A i \in 1..Len(result.flerarsdata) : result.flerarsdata[i].period = i - 1

(***************************************************************************)
(* The Taxonomy Registry and Detector.  TAXONOMI_VERSIONER is kept in its  *)
(* insertion order, which is the order dict.items() iterates in.           *)
(***************************************************************************)
TaxonomiInfo(version, typ, entry_point, ar_arkiverad, varning) ==
    [version |-> version, typ |-> typ, entry_point |-> entry_point,
     ar_arkiverad |-> ar_arkiverad, varning |-> varning]

VarningK2_2017 == "VARNING: K2 2017-09-30 ar arkiverad och stods EJ av Bolagsverket sedan 2023"

VarningK3_2018 == "VARNING: K3 2018-12-17 ar arkiverad och stods EJ av Bolagsverket sedan 2023"

TAXONOMI_VERSIONER ==
    <<[tax_id |-> <<"k", "2", "/", "2", "0", "2", "4", "-", "0", "9", "-", "1", "2">>,
       tax_info |-> TaxonomiInfo("2024-09-12", "K2", <<"s", "e", "/", "f", "r", "/", "g", "a", "a", "p", "/", "k", "2", "/", "2", "0", "2", "4", "-", "0", "9", "-", "1", "2">>, FALSE, PyNone)],
      [tax_id |-> <<"k", "2", "/", "2", "0", "2", "1", "-", "1", "0", "-", "3", "1">>,
       tax_info |-> TaxonomiInfo("2021-10-31", "K2", <<"s", "e", "/", "f", "r", "/", "g", "a", "a", "p", "/", "k", "2", "/", "2", "0", "2", "1", "-", "1", "0", "-", "3", "1">>, FALSE, PyNone)],
      [tax_id |-> <<"k", "2", "/", "2", "0", "1", "7", "-", "0", "9", "-", "3", "0">>,
       tax_info |-> TaxonomiInfo("2017-09-30", "K2", <<"s", "e", "/", "f", "r", "/", "g", "a", "a", "p", "/", "k", "2", "/", "2", "0", "1", "7", "-", "0", "9", "-", "3", "0">>, TRUE, VarningK2_2017)],
      [tax_id |-> <<"k", "3", "/", "2", "0", "2", "1", "-", "1", "0", "-", "3", "1">>,
       tax_info |-> TaxonomiInfo("2021-10-31", "K3", <<"s", "e", "/", "f", "r", "/", "g", "a", "a", "p", "/", "k", "3", "/", "2", "0", "2", "1", "-", "1", "0", "-", "3", "1">>, FALSE, PyNone)],
      [tax_id |-> <<"k", "3", "/", "2", "0", "2", "0", "-", "1", "2", "-", "0", "1">>,
       tax_info |-> TaxonomiInfo("2020-12-01", "K3", <<"s", "e", "/", "f", "r", "/", "g", "a", "a", "p", "/", "k", "3", "/", "2", "0", "2", "0", "-", "1", "2", "-", "0", "1">>, FALSE, PyNone)],
      [tax_id |-> <<"k", "3", "/", "2", "0", "1", "8", "-", "1", "2", "-", "1", "7">>,
       tax_info |-> TaxonomiInfo("2018-12-17", "K3", <<"s", "e", "/", "f", "r", "/", "g", "a", "a", "p", "/", "k", "3", "/", "2", "0", "1", "8", "-", "1", "2", "-", "1", "7">>, TRUE, VarningK3_2018)],
      [tax_id |-> <<"k", "3", "k", "/", "2", "0", "2", "1", "-", "1", "0", "-", "3", "1">>,
       tax_info |-> TaxonomiInfo("2021-10-31", "K3K", <<"s", "e", "/", "f", "r", "/", "g", "a", "a", "p", "/", "k", "3", "k", "/", "2", "0", "2", "1", "-", "1", "0", "-", "3", "1">>, FALSE, PyNone)],
      [tax_id |-> <<"k", "3", "k", "/", "2", "0", "2", "0", "-", "1", "2", "-", "0", "1">>,
       tax_info |-> TaxonomiInfo("2020-12-01", "K3K", <<"s", "e", "/", "f", "r", "/", "g", "a", "a", "p", "/", "k", "3", "k", "/", "2", "0", "2", "0", "-", "1", "2", "-", "0", "1">>, FALSE, PyNone)],
      [tax_id |-> <<"a", "r", "/", "2", "0", "2", "0", "-", "1", "2", "-", "0", "1">>,
       tax_info |-> TaxonomiInfo("2020-12-01", "REVISION", <<"s", "e", "/", "f", "r", "/", "a", "r", "/", "2", "0", "2", "0", "-", "1", "2", "-", "0", "1">>, FALSE, PyNone)],
      [tax_id |-> <<"c", "i", "/", "2", "0", "2", "2", "-", "0", "9", "-", "0", "1">>,
       tax_info |-> TaxonomiInfo("2022-09-01", "FASTSTALLELSE_ESEF", <<"s", "e", "/", "f", "r", "/", "c", "i", "/", "2", "0", "2", "2", "-", "0", "9", "-", "0", "1">>, FALSE, PyNone)],
      [tax_id |-> <<"c", "i", "/", "2", "0", "2", "0", "-", "1", "2", "-", "0", "1">>,
       tax_info |-> TaxonomiInfo("2020-12-01", "FASTSTALLELSE", <<"s", "e", "/", "f", "r", "/", "c", "i", "/", "2", "0", "2", "0", "-", "1", "2", "-", "0", "1">>, FALSE, PyNone)]>>

RECURSIVE Concat(_)
\* ''.join(parts)
Concat(parts) == IF parts = <<>> THEN <<>> ELSE Head(parts) \o Concat(Tail(parts))

\* str(self.soup): the markup of the document in document order.  Of each tag
\* it keeps the name and the content, between the delimiters of the markup.
SoupText(doc) ==
    Concat([i \in 1..Len(doc) |->
        <<"<">> \o Attr(doc[i].name, <<>>) \o <<">">> \o Attr(doc[i].text, <<>>)])

\* the test of lines 1632 and 1635 without the '/' -> '-' alternative
TaxonomiMatch_AsWritten(tax_id, tax_info, doc_text) ==
    \/ Contains(doc_text, tax_id)
    \/ Contains(doc_text, Lower(tax_info.entry_point))

\* the test of lines 1632 and 1635: the if and the elif append the same entry
TaxonomiMatch(tax_id, tax_info, doc_text) ==
    \/ Contains(doc_text, Replace(tax_id, "/", <<"-">>)) \/ Contains(doc_text, tax_id)
    \/ Contains(doc_text, Lower(tax_info.entry_point))

\* IXBRLParser.get_taxonomi_info
get_taxonomi_info(doc) ==
    WithValue(Lower(SoupText(doc)), LAMBDA doc_text :
        WithValue(SelectSeq(TAXONOMI_VERSIONER,
                      LAMBDA e : TaxonomiMatch(e.tax_id, e.tax_info, doc_text)),
                  LAMBDA hits : [i \in 1..Len(hits) |-> hits[i].tax_info]))

\* IXBRLParser.get_taxonomi_varningar
get_taxonomi_varningar(doc) ==
    WithValue(SelectSeq(get_taxonomi_info(doc),
                  LAMBDA t : t.ar_arkiverad /\ t.varning # PyNone /\ t.varning # ""),
              LAMBDA hits : [i \in 1..Len(hits) |-> hits[i].varning])

(***************************************************************************)
(* Consolidated accounts.  K3K_BEGREPP in its insertion order; attribute   *)
(* names are kept as text because the code inspects them.                  *)
(***************************************************************************)
K3K_BEGREPP ==
    <<[attr |-> <<"k", "o", "n", "c", "e", "r", "n", "_", "n", "e", "t", "t", "o", "o", "m", "s", "a", "t", "t", "n", "i", "n", "g">>,
       begrepp_lista |-> <<<<"K", "o", "n", "c", "e", "r", "n", "e", "n", "s", "N", "e", "t", "t", "o", "o", "m", "s", "a", "t", "t", "n", "i", "n", "g">>, <<"N", "e", "t", "t", "o", "o", "m", "s", "a", "t", "t", "n", "i", "n", "g", "K", "o", "n", "c", "e", "r", "n">>>>],
      [attr |-> <<"k", "o", "n", "c", "e", "r", "n", "_", "r", "o", "r", "e", "l", "s", "e", "r", "e", "s", "u", "l", "t", "a", "t">>,
       begrepp_lista |-> <<<<"K", "o", "n", "c", "e", "r", "n", "e", "n", "s", "R", "o", "r", "e", "l", "s", "e", "r", "e", "s", "u", "l", "t", "a", "t">>, <<"R", "o", "r", "e", "l", "s", "e", "r", "e", "s", "u", "l", "t", "a", "t", "K", "o", "n", "c", "e", "r", "n">>>>],
      [attr |-> <<"k", "o", "n", "c", "e", "r", "n", "_", "r", "e", "s", "u", "l", "t", "a", "t", "_", "e", "f", "t", "e", "r", "_", "f", "i", "n", "a", "n", "s", "i", "e", "l", "l", "a">>,
       begrepp_lista |-> <<<<"K", "o", "n", "c", "e", "r", "n", "e", "n", "s", "R", "e", "s", "u", "l", "t", "a", "t", "E", "f", "t", "e", "r", "F", "i", "n", "a", "n", "s", "i", "e", "l", "l", "a", "P", "o", "s", "t", "e", "r">>>>],
      [attr |-> <<"k", "o", "n", "c", "e", "r", "n", "_", "a", "r", "e", "t", "s", "_", "r", "e", "s", "u", "l", "t", "a", "t">>,
       begrepp_lista |-> <<<<"K", "o", "n", "c", "e", "r", "n", "e", "n", "s", "A", "r", "e", "t", "s", "R", "e", "s", "u", "l", "t", "a", "t">>, <<"A", "r", "e", "t", "s", "R", "e", "s", "u", "l", "t", "a", "t", "K", "o", "n", "c", "e", "r", "n">>>>],
      [attr |-> <<"k", "o", "n", "c", "e", "r", "n", "_", "g", "o", "o", "d", "w", "i", "l", "l">>,
       begrepp_lista |-> <<<<"G", "o", "o", "d", "w", "i", "l", "l">>, <<"K", "o", "n", "c", "e", "r", "n", "m", "a", "s", "s", "i", "g", "G", "o", "o", "d", "w", "i", "l", "l">>>>],
      [attr |-> <<"k", "o", "n", "c", "e", "r", "n", "_", "e", "g", "e", "t", "_", "k", "a", "p", "i", "t", "a", "l">>,
       begrepp_lista |-> <<<<"K", "o", "n", "c", "e", "r", "n", "e", "n", "s", "E", "g", "e", "t", "K", "a", "p", "i", "t", "a", "l">>, <<"E", "g", "e", "t", "K", "a", "p", "i", "t", "a", "l", "K", "o", "n", "c", "e", "r", "n">>>>],
      [attr |-> <<"m", "i", "n", "o", "r", "i", "t", "e", "t", "s", "a", "n", "d", "e", "l">>,
       begrepp_lista |-> <<<<"M", "i", "n", "o", "r", "i", "t", "e", "t", "s", "a", "n", "d", "e", "l", "E", "g", "e", "t", "K", "a", "p", "i", "t", "a", "l">>, <<"M", "i", "n", "o", "r", "i", "t", "e", "t", "s", "i", "n", "t", "r", "e", "s", "s", "e">>>>],
      [attr |-> <<"k", "o", "n", "c", "e", "r", "n", "_", "b", "a", "l", "a", "n", "s", "o", "m", "s", "l", "u", "t", "n", "i", "n", "g">>,
       begrepp_lista |-> <<<<"K", "o", "n", "c", "e", "r", "n", "e", "n", "s", "S", "u", "m", "m", "a", "T", "i", "l", "l", "g", "a", "n", "g", "a", "r">>, <<"T", "i", "l", "l", "g", "a", "n", "g", "a", "r", "K", "o", "n", "c", "e", "r", "n">>>>]>>

\* the fields of the dataclass KoncernNyckeltal
KoncernFields ==
    {<<"k", "o", "n", "c", "e", "r", "n", "_", "n", "e", "t", "t", "o", "o", "m", "s", "a", "t", "t", "n", "i", "n", "g">>, <<"k", "o", "n", "c", "e", "r", "n", "_", "r", "o", "r", "e", "l", "s", "e", "r", "e", "s", "u", "l", "t", "a", "t">>,
     <<"k", "o", "n", "c", "e", "r", "n", "_", "r", "e", "s", "u", "l", "t", "a", "t", "_", "e", "f", "t", "e", "r", "_", "f", "i", "n", "a", "n", "s", "i", "e", "l", "l", "a">>, <<"k", "o", "n", "c", "e", "r", "n", "_", "a", "r", "e", "t", "s", "_", "r", "e", "s", "u", "l", "t", "a", "t">>,
     <<"k", "o", "n", "c", "e", "r", "n", "_", "e", "g", "e", "t", "_", "k", "a", "p", "i", "t", "a", "l">>, <<"k", "o", "n", "c", "e", "r", "n", "_", "b", "a", "l", "a", "n", "s", "o", "m", "s", "l", "u", "t", "n", "i", "n", "g">>, <<"m", "i", "n", "o", "r", "i", "t", "e", "t", "s", "a", "n", "d", "e", "l">>,
     <<"g", "o", "o", "d", "w", "i", "l", "l">>, <<"k", "o", "n", "c", "e", "r", "n", "_", "s", "o", "l", "i", "d", "i", "t", "e", "t">>}

KoncernEgetKapital == <<"k", "o", "n", "c", "e", "r", "n", "_", "e", "g", "e", "t", "_", "k", "a", "p", "i", "t", "a", "l">>

KoncernBalansomslutning == <<"k", "o", "n", "c", "e", "r", "n", "_", "b", "a", "l", "a", "n", "s", "o", "m", "s", "l", "u", "t", "n", "i", "n", "g">>

KoncernSoliditet == <<"k", "o", "n", "c", "e", "r", "n", "_", "s", "o", "l", "i", "d", "i", "t", "e", "t">>

KoncernPrefix == <<"k", "o", "n", "c", "e", "r", "n", "_">>

\* KoncernNyckeltal()
NoKoncernNyckeltal == [f \in KoncernFields |-> None]

\* round((a / b) * 100, 1), in tenths
RoundPercent1(a, b) == RoundHalfEven(a * 1000, b)

\* KoncernNyckeltal.berakna_koncern_nyckeltal
berakna_koncern_nyckeltal(n) ==
    IF Truthy(n[KoncernEgetKapital]) /\ Truthy(n[KoncernBalansomslutning])
    THEN [n EXCEPT ![KoncernSoliditet] =
            Some(RoundPercent1(n[KoncernEgetKapital].val, n[KoncernBalansomslutning].val))]
    ELSE n

\* the value of the last pattern of the list that resolves, None when none does
LastResolving(doc, begrepp_lista, ctx) ==
    WithValue([i \in 1..Len(begrepp_lista) |-> get_value(doc, begrepp_lista[i], ctx)],
              LAMBDA vals :
                  IF \A i \in 1..Len(vals) : vals[i] = None THEN None
                  ELSE vals[CHOOSE i \in 1..Len(vals) :
                                /\ vals[i] # None
                                /\ \A j \in (i + 1)..Len(vals) : vals[j] = None])

\* the inner loop of lines 1669-1678: the value of the first pattern of the
\* list that does not come back None (Raised: the lookup let an exception
\* escape), None when every pattern comes back None
FirstResolving(doc, begrepp_lista, ctx) ==
    WithValue([i \in 1..Len(begrepp_lista) |-> get_value(doc, begrepp_lista[i], ctx)],
              LAMBDA vals :
                  IF \A i \in 1..Len(vals) : vals[i] = None THEN None
                  ELSE vals[CHOOSE i \in 1..Len(vals) :
                                /\ vals[i] # None
                                /\ \A j \in 1..(i - 1) : vals[j] = None])

\* the lookups of one pass over K3K_BEGREPP.items(): for each attribute the
\* outcome of its inner loop, every pattern sought in the context ctx(attr)
KoncernLookups(doc, ctx(_)) ==
    [i \in 1..Len(K3K_BEGREPP) |->
        FirstResolving(doc, K3K_BEGREPP[i].begrepp_lista, ctx(K3K_BEGREPP[i].attr))]

\* the two loops of IXBRLParser.ar_koncernredovisning, given the matched
\* taxonomies and the lookups without a context
KoncernFound(taxonomier, found) ==
    IF \E i \in 1..Len(taxonomier) : taxonomier[i].typ = "K3K" THEN Some(1)
    ELSE IF \A i \in 1..Len(found) : found[i] = None THEN Some(0)
    ELSE IF found[CHOOSE i \in 1..Len(found) :
                     /\ found[i] # None
                     /\ \A j \in 1..(i - 1) : found[j] = None] = Raised THEN Raised
    ELSE Some(1)

\* IXBRLParser.ar_koncernredovisning: Some(1) for True, Some(0) for False,
\* Raised when a lookup lets an exception escape before the answer is known
ar_koncernredovisning(doc) ==
    KoncernFound(get_taxonomi_info(doc), KoncernLookups(doc, LAMBDA attr : NoContext))

\* ctx of line 1668
KoncernContext(attr, period) ==
    IF Contains(attr, <<"k", "a", "p", "i", "t", "a", "l">>) \/ Contains(attr, <<"b", "a", "l", "a", "n", "s", "o", "m", "s", "l", "u", "t", "n", "i", "n", "g">>)
    THEN BalansOf[period] ELSE period

\* mapped_attr of line 1673 and the hasattr tests of lines 1674-1677: the
\* field that setattr writes, Absent when there is none
KoncernTarget(attr) ==
    LET n == Len(KoncernPrefix)
        mapped_attr == IF Len(attr) >= n /\ SubSeq(attr, 1, n) = KoncernPrefix
                       THEN SubSeq(attr, n + 1, Len(attr)) ELSE attr
    IN  IF mapped_attr \in KoncernFields THEN mapped_attr
        ELSE IF KoncernPrefix \o mapped_attr \in KoncernFields
        THEN KoncernPrefix \o mapped_attr
        ELSE Absent

\* the attributes that lines 1669-1678 set, given the lookups of the pass
KoncernFilled(found) ==
    [f \in KoncernFields |->
        IF \E i \in 1..Len(K3K_BEGREPP) : KoncernTarget(K3K_BEGREPP[i].attr) = f
        THEN found[CHOOSE i \in 1..Len(K3K_BEGREPP) :
                       KoncernTarget(K3K_BEGREPP[i].attr) = f]
        ELSE None]

\* IXBRLParser.get_koncern_nyckeltal: is_none for a returned None, raised for
\* an exception that escapes
get_koncern_nyckeltal(doc, period) ==
    WithValue(
        <<ar_koncernredovisning(doc),
          KoncernLookups(doc, LAMBDA attr : KoncernContext(attr, period))>>,
        LAMBDA v :
            [is_none |-> v[1] = Some(0),
             raised |-> v[1] = Raised
                        \/ (v[1] = Some(1) /\ \E i \in 1..Len(v[2]) : v[2][i] = Raised),
             nyckeltal |->
                IF v[1] = Some(1) /\ \A i \in 1..Len(v[2]) : v[2][i] # Raised
                THEN berakna_koncern_nyckeltal(KoncernFilled(v[2]))
                ELSE NoKoncernNyckeltal])

(***************************************************************************)
(* Specification SpecTaxonomy: documents that reference taxonomies and tag *)
(* group concepts, and calls of the detector and of the group ratios.      *)
(***************************************************************************)
MaxSchemaRefs == 2

\* references as documents carry them: an archived entry point inside a
\* URL, an entry point in upper case, an archived key written with '-', and a
\* key that no entry has
SchemaRefTexts ==
    {<<"h", "t", "t", "p", ":", "/", "/", "x", "b", "r", "l", ".", "s", "e", "/", "f", "r", "/", "g", "a", "a", "p", "/", "k", "2", "/", "2", "0", "1", "7", "-", "0", "9", "-", "3", "0", "/", "x", ".", "x", "s", "d">>,
     <<"S", "E", "/", "F", "R", "/", "G", "A", "A", "P", "/", "K", "3", "K", "/", "2", "0", "2", "1", "-", "1", "0", "-", "3", "1">>,
     <<"k", "3", "-", "2", "0", "1", "8", "-", "1", "2", "-", "1", "7">>, <<"k", "2", "/", "2", "0", "9", "9", "-", "0", "1", "-", "0", "1">>}

\* a tag without a name attribute that carries a reference
SchemaRef(text) ==
    [name |-> Absent, contextref |-> "", text |-> text, format |-> "none",
     scale |-> Absent, sign |-> Absent]

RECURSIVE SchemaRefsOfLen(_)
SchemaRefsOfLen(n) ==
    IF n = 0 THEN {<<>>}
    ELSE {Append(d, SchemaRef(t)) : d \in SchemaRefsOfLen(n - 1), t \in SchemaRefTexts}

KoncernensNettoomsattning == <<"s", "e", "-", "g", "e", "n", "-", "b", "a", "s", "e", ":", "K", "o", "n", "c", "e", "r", "n", "e", "n", "s", "N", "e", "t", "t", "o", "o", "m", "s", "a", "t", "t", "n", "i", "n", "g">>

NettoomsattningKoncern == <<"s", "e", "-", "g", "e", "n", "-", "b", "a", "s", "e", ":", "N", "e", "t", "t", "o", "o", "m", "s", "a", "t", "t", "n", "i", "n", "g", "K", "o", "n", "c", "e", "r", "n">>

\* the group facts of a document: revenue under either synonym (resolving or
\* not, in either order), goodwill as the balance sheet or the period tags
\* it, equity and total assets, and the revenue of an individual company
GroupFacts ==
    {<<>>,
     <<Fact(Nettoomsattning, "period0", Num(<<"5">>))>>,
     <<Fact(KoncernensNettoomsattning, "period0", Num(<<"5">>))>>,
     <<Fact(NettoomsattningKoncern, "period0", Num(<<"7">>))>>,
     <<Fact(KoncernensNettoomsattning, "period0", Num(<<"x">>))>>,
     <<Fact(KoncernensNettoomsattning, "period0", Num(<<"x">>)),
       Fact(NettoomsattningKoncern, "period0", Num(<<"7">>))>>,
     <<Fact(NettoomsattningKoncern, "period0", Num(<<"7">>)),
       Fact(KoncernensNettoomsattning, "period0", Num(<<"5">>))>>,
     <<Fact(KoncernensNettoomsattning, "period1", Num(<<"5">>)),
       Fact(NettoomsattningKoncern, "period0", Num(<<"7">>))>>,
     <<Fact(<<"G", "o", "o", "d", "w", "i", "l", "l">>, "balans0", Num(<<"9">>))>>,
     <<Fact(<<"K", "o", "n", "c", "e", "r", "n", "m", "a", "s", "s", "i", "g", "G", "o", "o", "d", "w", "i", "l", "l">>, "period0", Num(<<"0">>))>>,
     <<Fact(<<"K", "o", "n", "c", "e", "r", "n", "e", "n", "s", "E", "g", "e", "t", "K", "a", "p", "i", "t", "a", "l">>, "balans0", Num(<<"4", "0">>)),
       Fact(<<"K", "o", "n", "c", "e", "r", "n", "e", "n", "s", "S", "u", "m", "m", "a", "T", "i", "l", "l", "g", "a", "n", "g", "a", "r">>, "balans0", Num(<<"1", "6", "0">>))>>,
     <<Fact(<<"E", "g", "e", "t", "K", "a", "p", "i", "t", "a", "l", "K", "o", "n", "c", "e", "r", "n">>, "balans0", Num(<<"1">>)),
       Fact(<<"T", "i", "l", "l", "g", "a", "n", "g", "a", "r", "K", "o", "n", "c", "e", "r", "n">>, "balans0", Num(<<"3">>)),
       Fact(<<"M", "i", "n", "o", "r", "i", "t", "e", "t", "s", "i", "n", "t", "r", "e", "s", "s", "e">>, "period0", Num(<<"2">>))>>}

InitTaxonomy ==
    /\ soup \in {refs \o facts :
                    refs \in UNION {SchemaRefsOfLen(n) : n \in 0..MaxSchemaRefs},
                    facts \in GroupFacts}
    /\ call = NoCall
    /\ value = None
    /\ nyckeltal = NoNyckeltal
    /\ flaggor = <<>>
    /\ flaggor_v4 = <<>>
    /\ cache_manager = {}
    /\ token_manager = NoToken
    /\ clock = 0
    /\ last_set = <<>>
    /\ result = NoResult
    /\ api = NoApi

\* The methods of the detector keep nothing between calls (self.soup is only
\* read), so each parser is asked one question.
CallGetTaxonomiInfo ==
    /\ call = NoCall
    /\ call' = [op |-> "IXBRLParser.get_taxonomi_info", pattern |-> <<>>,
                context |-> NoContext]
    /\ result' = [kind |-> "taxonomier", taxonomier |-> get_taxonomi_info(soup)]
    /\ UNCHANGED <<soup, value, nyckeltal, flaggor, flaggor_v4, api,
                 cache_manager, token_manager, clock, last_set>>

CallGetTaxonomiVarningar ==
    /\ call = NoCall
    /\ call' = [op |-> "IXBRLParser.get_taxonomi_varningar", pattern |-> <<>>,
                context |-> NoContext]
    /\ result' = [kind |-> "varningar", varningar |-> get_taxonomi_varningar(soup)]
    /\ UNCHANGED <<soup, value, nyckeltal, flaggor, flaggor_v4, api,
                 cache_manager, token_manager, clock, last_set>>

CallArKoncernredovisning ==
    /\ call = NoCall
    /\ call' = [op |-> "IXBRLParser.ar_koncernredovisning", pattern |-> <<>>,
                context |-> NoContext]
    /\ value' = ar_koncernredovisning(soup)
    /\ result' = NoResult
    /\ UNCHANGED <<soup, nyckeltal, flaggor, flaggor_v4, api,
                 cache_manager, token_manager, clock, last_set>>

CallGetKoncernNyckeltal(period) ==
    /\ call = NoCall
    /\ \E koncern \in {get_koncern_nyckeltal(soup, period)} :
        /\ call' = [op |-> "IXBRLParser.get_koncern_nyckeltal", pattern |-> <<>>,
                    context |-> period]
        /\ result' = [kind |-> "koncern_nyckeltal", is_none |-> koncern.is_none,
                      raised |-> koncern.raised, nyckeltal |-> koncern.nyckeltal]
        /\ UNCHANGED <<soup, value, nyckeltal, flaggor, flaggor_v4, api,
                 cache_manager, token_manager, clock, last_set>>

NextTaxonomy ==
    \/ CallGetTaxonomiInfo
    \/ CallGetTaxonomiVarningar
    \/ CallArKoncernredovisning
    \/ \E period \in {"period0", "period1"} : CallGetKoncernNyckeltal(period)

SpecTaxonomy == InitTaxonomy /\ [][NextTaxonomy]_vars

\* C16: get_taxonomi_info returns exactly the registry entries whose key (as
\* written, or with '/' replaced by '-') or whose entry point occurs in the
\* document text without regard to case, each once and in registry order, and
\* the empty list when none occurs; get_taxonomi_varningar returns the
\* warning, which is not empty, of each matched archived entry and nothing
\* else.
C16_RegistryMatches ==
    call.op \in {"IXBRLParser.get_taxonomi_info", "IXBRLParser.get_taxonomi_varningar"} =>
    WithValue(Lower(SoupText(soup)), LAMBDA text :
        WithValue(
            SelectSeq(TAXONOMI_VERSIONER, LAMBDA e :
                \/ Contains(text, Lower(e.tax_id))
                \/ Contains(text, Lower(Replace(e.tax_id, "/", <<"-">>)))
                \/ Contains(text, Lower(e.tax_info.entry_point))),
            LAMBDA matched :
                /\ (call.op = "IXBRLParser.get_taxonomi_info" /\ result.kind = "taxonomier") =>
                        /\ Len(result.taxonomier) = Len(matched)
                        /\ \A i \in 1..Len(matched) : result.taxonomier[i] = matched[i].tax_info
                /\ (call.op = "IXBRLParser.get_taxonomi_varningar" /\ result.kind = "varningar") =>
                        WithValue(
                            SelectSeq(matched, LAMBDA e : e.tax_info.ar_arkiverad),
                            LAMBDA archived :
                                /\ Len(result.varningar) = Len(archived)
                                /\ \A i \in 1..Len(archived) :
                                        /\ result.varningar[i] = archived[i].tax_info.varning
                                        /\ result.varningar[i] \notin {PyNone, ""})))

\* C16 witness: a document that names two taxonomies, one of them archived and
\* written with '-', has been asked for its warnings and gave exactly one.
C16_Witness ==
    /\ call.op = "IXBRLParser.get_taxonomi_varningar"
    /\ result.kind = "varningar"
    /\ Len(result.varningar) = 1
    /\ Len(get_taxonomi_info(soup)) = 2
    /\ Contains(SoupText(soup), <<"k", "3", "-", "2", "0", "1", "8", "-", "1", "2", "-", "1", "7">>)

\* C17: ar_koncernredovisning answers True exactly when a matched taxonomy is
\* of the type K3K or some concept of K3K_BEGREPP resolves to a number
\* somewhere in the document; get_koncern_nyckeltal returns None exactly when
\* that answer is False, and otherwise every attribute holds the value of the
\* first pattern of its list that resolves in the context of the attribute,
\* whatever the later patterns resolve to, and nothing when none resolves.
C17_GroupDetectionAndRatios ==
    call.op \in {"IXBRLParser.ar_koncernredovisning", "IXBRLParser.get_koncern_nyckeltal"} =>
    WithValue(
        \/ \E t \in {get_taxonomi_info(soup)} : \E i \in 1..Len(t) : t[i].typ = "K3K"
        \/ \E i \in 1..Len(K3K_BEGREPP) :
              \E k \in 1..Len(K3K_BEGREPP[i].begrepp_lista) :
                  IsSome(get_value(soup, K3K_BEGREPP[i].begrepp_lista[k], NoContext)),
        LAMBDA group :
            /\ call.op = "IXBRLParser.ar_koncernredovisning" =>
                    value = IF group THEN Some(1) ELSE Some(0)
            /\ (call.op = "IXBRLParser.get_koncern_nyckeltal"
                    /\ result.kind = "koncern_nyckeltal") =>
                    /\ ~result.raised
                    /\ result.is_none <=> ~group
                    /\ ~result.is_none =>
                          \A i \in 1..Len(K3K_BEGREPP) :
                              LET attr == K3K_BEGREPP[i].attr
                                  target == IF attr = <<"k", "o", "n", "c", "e", "r", "n", "_", "g", "o", "o", "d", "w", "i", "l", "l">> THEN <<"g", "o", "o", "d", "w", "i", "l", "l">> ELSE attr
                                  Resolved(k) ==
                                      get_value(soup, K3K_BEGREPP[i].begrepp_lista[k],
                                                KoncernContext(attr, call.context))
                                  n == Len(K3K_BEGREPP[i].begrepp_lista)
                              IN  \/ /\ \A k \in 1..n : ~IsSome(Resolved(k))
                                     /\ result.nyckeltal[target] = None
                                  \/ \E k \in 1..n :
                                        /\ IsSome(Resolved(k))
                                        /\ \A j \in 1..(k - 1) : ~IsSome(Resolved(j))
                                        /\ result.nyckeltal[target] = Resolved(k))

\* C17 witness: the document tags revenue under the second synonym before the
\* first one, no taxonomy is matched, and the group ratios of period0 carry
\* the value of the first synonym.
C17_Witness ==
    /\ call.op = "IXBRLParser.get_koncern_nyckeltal"
    /\ call.context = "period0"
    /\ result.kind = "koncern_nyckeltal"
    /\ ~result.is_none
    /\ get_taxonomi_info(soup) = <<>>
    /\ Len(soup) = 2
    /\ soup[1].name = NettoomsattningKoncern
    /\ soup[1].text = <<"7">>
    /\ soup[2].name = KoncernensNettoomsattning
    /\ result.nyckeltal[<<"k", "o", "n", "c", "e", "r", "n", "_", "n", "e", "t", "t", "o", "o", "m", "s", "a", "t", "t", "n", "i", "n", "g">>] = Some(5)

(***************************************************************************)
(* Natural numbers beyond the range of the model checker's integers, as    *)
(* sequences of limbs in 0..LimbBase-1, least significant first, without   *)
(* leading zero limbs; <<>> is 0.  Python's int is unbounded and a float   *)
(* carries 53 significant bits.                                            *)
(***************************************************************************)
LimbBase == 2^15

RECURSIVE Big(_)
\* the number n >= 0
Big(n) == IF n = 0 THEN <<>> ELSE <<n % LimbBase>> \o Big(n \div LimbBase)

RECURSIVE BigTrim(_)
BigTrim(a) ==
    IF a # <<>> /\ a[Len(a)] = 0 THEN BigTrim(SubSeq(a, 1, Len(a) - 1)) ELSE a

RECURSIVE BigToInt(_)
\* the number as an integer, for numbers known to be small
BigToInt(a) == IF a = <<>> THEN 0 ELSE a[1] + LimbBase * BigToInt(Tail(a))

RECURSIVE BigAddCarry(_, _, _)
BigAddCarry(a, b, carry) ==
    IF a = <<>> /\ b = <<>> THEN (IF carry = 0 THEN <<>> ELSE <<carry>>)
    ELSE LET s == (IF a = <<>> THEN 0 ELSE a[1]) + (IF b = <<>> THEN 0 ELSE b[1]) + carry
         IN  <<s % LimbBase>> \o
             BigAddCarry(IF a = <<>> THEN a ELSE Tail(a),
                         IF b = <<>> THEN b ELSE Tail(b), s \div LimbBase)

BigAdd(a, b) == BigAddCarry(a, b, 0)

RECURSIVE BigSubBorrow(_, _, _)
BigSubBorrow(a, b, borrow) ==
    IF a = <<>> THEN <<>>
    ELSE LET d == a[1] - (IF b = <<>> THEN 0 ELSE b[1]) - borrow
         IN  <<d % LimbBase>> \o
             BigSubBorrow(Tail(a), IF b = <<>> THEN b ELSE Tail(b),
                          IF d < 0 THEN 1 ELSE 0)

\* a - b for a >= b
BigSub(a, b) == BigTrim(BigSubBorrow(a, b, 0))

RECURSIVE BigLess(_, _)
\* a < b
BigLess(a, b) ==
    IF Len(a) # Len(b) THEN Len(a) < Len(b)
    ELSE IF a = <<>> THEN FALSE
    ELSE IF a[Len(a)] # b[Len(b)] THEN a[Len(a)] < b[Len(b)]
    ELSE BigLess(SubSeq(a, 1, Len(a) - 1), SubSeq(b, 1, Len(b) - 1))

RECURSIVE BigMulCarry(_, _, _)
BigMulCarry(a, k, carry) ==
    IF a = <<>> THEN Big(carry)
    ELSE LET p == a[1] * k + carry
         IN  <<p % LimbBase>> \o BigMulCarry(Tail(a), k, p \div LimbBase)

\* a * k for 0 <= k < LimbBase
BigMulSmall(a, k) == IF k = 0 THEN <<>> ELSE BigMulCarry(a, k, 0)

RECURSIVE BigMul(_, _)
BigMul(a, b) ==
    IF a = <<>> \/ b = <<>> THEN <<>>
    ELSE BigAdd(BigMulSmall(a, b[1]),
                WithValue(BigMul(a, Tail(b)),
                          LAMBDA p : IF p = <<>> THEN p ELSE <<0>> \o p))

RECURSIVE BigPow(_, _)
BigPow(a, n) == IF n = 0 THEN <<1>> ELSE BigMul(a, BigPow(a, n - 1))

RECURSIVE BigDivRem(_, _)
\* <<a div k, a mod k>> for 0 < k < LimbBase, the quotient untrimmed
BigDivRem(a, k) ==
    IF a = <<>> THEN <<a, 0>>
    ELSE WithValue(BigDivRem(Tail(a), k), LAMBDA hi :
            <<<<(hi[2] * LimbBase + a[1]) \div k>> \o hi[1],
              (hi[2] * LimbBase + a[1]) % k>>)

\* [q |-> a div k, r |-> a mod k] for 0 < k < LimbBase
BigDivSmall(a, k) ==
    WithValue(BigDivRem(a, k), LAMBDA qr : [q |-> BigTrim(qr[1]), r |-> qr[2]])

(***************************************************************************)
(* calculate_cagr.  The growth rate is kept in hundredths of a percent,    *)
(* which is what round(cagr, 2) leaves: 25.0 is Some(2500).  The root is   *)
(* taken exactly; the float of line 3647 rounds to the same hundredth      *)
(* unless the exact value lies within float error of a rounding tie.       *)
(***************************************************************************)
\* <<start_value, end_value>> taken from the wrong ends of the series
CagrEnds_Swapped(values) == <<values[1], values[Len(values)]>>

\* <<start_value, end_value>> of lines 3643-3644
CagrEnds(values) == <<values[Len(values)], values[1]>>

RECURSIVE RootSearch(_, _, _, _, _)
\* the greatest t in lo..hi-1 with t^years * start <= bound, given that lo is
\* such a t and hi is not
RootSearch(lo, hi, years, start, bound) ==
    IF hi - lo <= 1 THEN lo
    ELSE WithValue(lo + (hi - lo) \div 2, LAMBDA mid :
            IF BigLess(bound, BigMul(BigPow(Big(mid), years), start))
            THEN RootSearch(lo, mid, years, start, bound)
            ELSE RootSearch(mid, hi, years, start, bound))

MaxGrowthFactor == 2^30

\* round(((end_value / start_value) ** (1 / years) - 1) * 100, 2) in
\* hundredths, for start_value > 0, end_value > 0 and years >= 1: with
\* t = floor(20000 * root), the rounded 10000 * root is (t + 1) div 2, and an
\* exact tie goes to the even neighbour
CagrHundredths(start_value, end_value, years) ==
    WithValue(BigMul(Big(end_value), BigPow(Big(20000), years)), LAMBDA bound :
        WithValue(RootSearch(0, MaxGrowthFactor, years, Big(start_value), bound),
            LAMBDA t :
                IF t % 4 = 1 /\ BigMul(BigPow(Big(t), years), Big(start_value)) = bound
                THEN (t - 1) \div 2 - 10000
                ELSE (t + 1) \div 2 - 10000))

\* calculate_cagr(values, years)
calculate_cagr(values, years) ==
    IF values = <<>> \/ Len(values) < 2 \/ years < 1 THEN None
    ELSE IF CagrEnds(values)[1] <= 0 \/ CagrEnds(values)[2] <= 0 THEN None
    ELSE Some(CagrHundredths(CagrEnds(values)[1], CagrEnds(values)[2], years))

(***************************************************************************)
(* Specification SpecCagr: series of positive, zero and negative amounts,  *)
(* most recent first, and calls of calculate_cagr.                         *)
(***************************************************************************)
MaxSeries == 3

MaxYears == 2

CagrAmounts == {0 - 5, 0, 100, 125, 800000, 1000000}

RECURSIVE SeriesOfLen(_, _)
SeriesOfLen(amounts, n) ==
    IF n = 0 THEN {<<>>}
    ELSE {Append(s, a) : s \in SeriesOfLen(amounts, n - 1), a \in amounts}

InitCagr ==
    /\ soup = <<>>
    /\ call = NoCall
    /\ value = None
    /\ nyckeltal = NoNyckeltal
    /\ flaggor = <<>>
    /\ flaggor_v4 = <<>>
    /\ cache_manager = {}
    /\ token_manager = NoToken
    /\ clock = 0
    /\ last_set = <<>>
    /\ result = NoResult
    /\ \E values \in UNION {SeriesOfLen(CagrAmounts, n) : n \in 0..MaxSeries},
          years \in 0..MaxYears :
            api = [kind |-> "series", values |-> values, years |-> years]

CallCalculateCagr ==
    /\ call = NoCall
    /\ call' = [op |-> "calculate_cagr", pattern |-> <<>>, context |-> NoContext]
    /\ value' = calculate_cagr(api.values, api.years)
    /\ UNCHANGED <<soup, nyckeltal, flaggor, flaggor_v4, result, api,
                 cache_manager, token_manager, clock, last_set>>

NextCagr == CallCalculateCagr

SpecCagr == InitCagr /\ [][NextCagr]_vars

\* C18: calculate_cagr over a series with the most recent amount first
\* returns None exactly when the series has fewer than 2 amounts, years < 1,
\* or the oldest or the newest amount is <= 0.  Otherwise it returns
\* ((newest / oldest)^(1/years) - 1) * 100 rounded to 2 decimals: the result r
\* (in hundredths) is the hundredth nearest to the exact value, that is
\* (1 + (r - 1/2)/10000)^years <= newest / oldest <= (1 + (r + 1/2)/10000)^years;
\* and [1000000, 800000] over 1 year gives 25.0.
C18_CagrDefinedAndRounded ==
    call.op = "calculate_cagr" =>
        LET values == api.values
            years == api.years
            n == Len(values)
            undefined ==
                n < 2 \/ years < 1 \/ values[n] <= 0 \/ values[1] <= 0
            Scaled(factor, amount) ==
                BigMul(BigPow(Big(factor), years), Big(amount))
        IN  /\ value = None <=> undefined
            /\ ~undefined =>
                /\ IsSome(value)
                /\ \/ 20000 + 2 * value.val - 1 < 0
                   \/ ~BigLess(Scaled(20000, values[1]),
                               Scaled(20000 + 2 * value.val - 1, values[n]))
                /\ ~BigLess(Scaled(20000 + 2 * value.val + 1, values[n]),
                            Scaled(20000, values[1]))
            /\ (values = <<1000000, 800000>> /\ years = 1) => value = Some(2500)

\* C18 witness: the rate of [1000000, 800000] over 1 year has been computed,
\* and it is 25.0.
C18_Witness ==
    /\ call.op = "calculate_cagr"
    /\ api.values = <<1000000, 800000>>
    /\ api.years = 1
    /\ value = Some(2500)

(***************************************************************************)
(* Python floats.  The floats that linear_forecast computes are multiples  *)
(* of 2^-75 below 2^11 in magnitude, so a float is kept as a sign and the  *)
(* magnitude counted in units of 2^-75 (FracLimbs limbs of LimbBits bits); *)
(* every operation rounds its exact result to MantissaBits significant     *)
(* bits, ties to even, as IEEE 754 binary64 does.                          *)
(***************************************************************************)
LimbBits == 15

FracLimbs == 5

MantissaBits == 53

RECURSIVE BitLenInt(_)
BitLenInt(n) == IF n = 0 THEN 0 ELSE 1 + BitLenInt(n \div 2)

BigBitLen(a) ==
    IF a = <<>> THEN 0 ELSE LimbBits * (Len(a) - 1) + BitLenInt(a[Len(a)])

\* [q |-> a div 2^k, sticky |-> a mod 2^k # 0]
BigShr(a, k) ==
    WithValue(
        BigDivSmall(SubSeq(a, k \div LimbBits + 1, Len(a)), 2^(k % LimbBits)),
        LAMBDA d :
            [q |-> d.q,
             sticky |-> d.r # 0 \/ \E i \in 1..(k \div LimbBits) : i <= Len(a) /\ a[i] # 0])

\* a * 2^k
BigShl(a, k) ==
    IF a = <<>> THEN a
    ELSE BigMulSmall([i \in 1..(k \div LimbBits) |-> 0] \o a, 2^(k % LimbBits))

\* the magnitude (with sticky: and something below its last unit) rounded to
\* MantissaBits significant bits, ties to even
RoundMag(mag, sticky) ==
    IF BigBitLen(mag) <= MantissaBits THEN mag
    ELSE WithValue(BigShr(mag, BigBitLen(mag) - MantissaBits - 1), LAMBDA s :
            WithValue(BigDivSmall(s.q, 2), LAMBDA h :
                BigShl(IF h.r = 1 /\ (s.sticky \/ sticky \/ h.q[1] % 2 = 1)
                       THEN BigAdd(h.q, <<1>>) ELSE h.q,
                       BigBitLen(mag) - MantissaBits)))

Float(neg, mag) == [neg |-> neg /\ mag # <<>>, mag |-> mag]

\* float(n) of an int n
FloatOfInt(n) ==
    IF n = 0 THEN Float(FALSE, <<>>)
    ELSE Float(n < 0, [i \in 1..FracLimbs |-> 0] \o Big(IF n < 0 THEN 0 - n ELSE n))

\* a + b
FloatAdd(a, b) ==
    IF a.neg = b.neg THEN Float(a.neg, RoundMag(BigAdd(a.mag, b.mag), FALSE))
    ELSE IF BigLess(a.mag, b.mag) THEN Float(b.neg, RoundMag(BigSub(b.mag, a.mag), FALSE))
    ELSE Float(a.neg, RoundMag(BigSub(a.mag, b.mag), FALSE))

\* a - b
FloatSub(a, b) == FloatAdd(a, Float(~b.neg, b.mag))

\* a * b
FloatMul(a, b) ==
    WithValue(BigShr(BigMul(a.mag, b.mag), FracLimbs * LimbBits), LAMBDA p :
        Float(a.neg # b.neg, RoundMag(p.q, p.sticky)))

\* a / b for a divisor that is a multiple of 1/2 below LimbBase / 2, as n and
\* den are
FloatDiv(a, b) ==
    WithValue(
        BigDivSmall(BigMulSmall(a.mag, 2),
                    BigToInt(BigShr(b.mag, FracLimbs * LimbBits - 1).q)),
        LAMBDA d : Float(a.neg # b.neg, RoundMag(d.q, d.r # 0)))

\* int(a): towards zero
FloatTrunc(a) ==
    WithValue(BigToInt(BigShr(a.mag, FracLimbs * LimbBits).q), LAMBDA n :
        IF a.neg THEN 0 - n ELSE n)

RECURSIVE FloatSum(_)
\* sum(terms): from the left, starting at 0
FloatSum(terms) ==
    IF terms = <<>> THEN FloatOfInt(0)
    ELSE FloatAdd(FloatSum(SubSeq(terms, 1, Len(terms) - 1)), terms[Len(terms)])

RECURSIVE IntSum(_)
IntSum(ints) == IF ints = <<>> THEN 0 ELSE Head(ints) + IntSum(Tail(ints))

(***************************************************************************)
(* linear_forecast.  An entry of the series is Some(amount) or None.       *)
(***************************************************************************)
\* the fit of lines 3660-3670 on the amounts y (oldest first), with
\* den # 0: int(slope * n + intercept)
ForecastOf(y) ==
    LET n == Len(y)
        x_mean == FloatDiv(FloatOfInt(IntSum([i \in 1..n |-> i - 1])), FloatOfInt(n))
        y_mean == FloatDiv(FloatOfInt(IntSum(y)), FloatOfInt(n))
    IN  WithValue(
            <<x_mean, y_mean,
              [i \in 1..n |-> FloatSub(FloatOfInt(i - 1), x_mean)],
              [i \in 1..n |-> FloatSub(FloatOfInt(y[i]), y_mean)]>>,
            LAMBDA m :
                WithValue(
                    <<FloatSum([i \in 1..n |-> FloatMul(m[3][i], m[4][i])]),
                      FloatSum([i \in 1..n |-> FloatMul(m[3][i], m[3][i])])>>,
                    LAMBDA nd :
                        IF nd[2].mag = <<>> THEN None
                        ELSE WithValue(FloatDiv(nd[1], nd[2]), LAMBDA slope :
                                Some(FloatTrunc(
                                    FloatAdd(FloatMul(slope, FloatOfInt(n)),
                                             FloatSub(m[2], FloatMul(slope, m[1])))))))) 

\* clean[::-1]
Reverse(s) == [i \in 1..Len(s) |-> s[Len(s) + 1 - i]]

\* linear_forecast(values)
linear_forecast(values) ==
    WithValue(SelectSeq(values, LAMBDA v : v # None), LAMBDA clean :
        IF Len(clean) < 2 THEN None
        ELSE ForecastOf(Reverse([i \in 1..Len(clean) |-> clean[i].val])))

(***************************************************************************)
(* Specification SpecForecast: series with absent entries, most recent     *)
(* first, and calls of linear_forecast.                                    *)
(***************************************************************************)
MaxForecastSeries == 4

ForecastEntries == {None, Some(1), Some(2), Some(0 - 3)}

InitForecast ==
    /\ soup = <<>>
    /\ call = NoCall
    /\ value = None
    /\ nyckeltal = NoNyckeltal
    /\ flaggor = <<>>
    /\ flaggor_v4 = <<>>
    /\ cache_manager = {}
    /\ token_manager = NoToken
    /\ clock = 0
    /\ last_set = <<>>
    /\ result = NoResult
    /\ \E values \in UNION {SeriesOfLen(ForecastEntries, n) : n \in 0..MaxForecastSeries} :
            api = [kind |-> "series", values |-> values, years |-> 0]

CallLinearForecast ==
    /\ call = NoCall
    /\ call' = [op |-> "linear_forecast", pattern |-> <<>>, context |-> NoContext]
    /\ value' = linear_forecast(api.values)
    /\ UNCHANGED <<soup, nyckeltal, flaggor, flaggor_v4, result, api,
                 cache_manager, token_manager, clock, last_set>>

NextForecast == CallLinearForecast

SpecForecast == InitForecast /\ [][NextForecast]_vars

\* C19, as stated: linear_forecast leaves the absent entries out and returns
\* None with fewer than 2 usable amounts; with n >= 2 usable amounts it always
\* returns a number, which is the least-squares line through the points
\* (i, v_i), i = 0..n-1, of the amounts in oldest-first order, taken at i = n
\* and truncated to an integer; with two usable amounts that is
\* 2 * newest - oldest.
C19_LeastSquaresTruncated ==
    call.op = "linear_forecast" =>
        LET usable == SelectSeq(api.values, LAMBDA v : IsSome(v))
            n == Len(usable)
            y == [i \in 1..n |-> usable[n + 1 - i].val]
            Sy == IntSum(y)
            Sx == IntSum([i \in 1..n |-> i - 1])
            Sxx == n * IntSum([i \in 1..n |-> (i - 1) * (i - 1)]) - Sx * Sx
            Sxy == n * IntSum([i \in 1..n |-> (i - 1) * y[i]]) - Sx * Sy
            \* the line at i = n is num / den
            num == 2 * Sxx * Sy + n * (n + 1) * Sxy
            den == 2 * n * Sxx
            truncated == IF num >= 0 THEN num \div den ELSE 0 - ((0 - num) \div den)
        IN  /\ n < 2 => value = None
            /\ n >= 2 => value = Some(truncated)
            /\ n = 2 => value = Some(2 * usable[1].val - usable[2].val)

(***************************************************************************)
(* bolagsverket_trends.  A listed document either fails to download, holds *)
(* no XHTML file, or holds an annual report; a row of the history is       *)
(* labelled with the closing date of its report (line 4221), here with the *)
(* index of its document.  A figure of the report is None when its line is *)
(* left out; the lines print the growth rates with one decimal.            *)
(***************************************************************************)
\* the body of the try of lines 4205-4225 for one document: a row, no row
\* (no XHTML file in the archive), or an exception that line 4226 catches
DokumentRow(i, dok) ==
    IF dok.status = "download_error" THEN [kind |-> "failed"]
    ELSE IF dok.status = "no_xhtml" THEN [kind |-> "skipped"]
    ELSE WithValue(get_nyckeltal(dok.soup, "period0"), LAMBDA nt :
            IF nt.raised THEN [kind |-> "failed"]
            ELSE [kind |-> "row", period |-> i, omsattning |-> nt.nettoomsattning,
                  resultat |-> nt.arets_resultat, eget_kapital |-> nt.eget_kapital,
                  anstallda |-> nt.antal_anstallda])

\* the loop of lines 4204-4227 leaving at the first document that fails
TrendsData_UntilFailure(dokument) ==
    WithValue([i \in 1..Len(dokument) |-> DokumentRow(i - 1, dokument[i])], LAMBDA rows :
        SelectSeq(
            SubSeq(rows, 1,
                   IF \A i \in 1..Len(rows) : rows[i].kind # "failed" THEN Len(rows)
                   ELSE (CHOOSE i \in 1..Len(rows) :
                            /\ rows[i].kind = "failed"
                            /\ \A j \in 1..(i - 1) : rows[j].kind # "failed") - 1),
            LAMBDA r : r.kind = "row"))

\* the loop of lines 4204-4227: data
TrendsData(dokument) ==
    SelectSeq([i \in 1..Len(dokument) |-> DokumentRow(i - 1, dokument[i])],
              LAMBDA r : r.kind = "row")

\* [d[key] for d in data if d[key]]
TruthyValues(column) ==
    WithValue(SelectSeq(column, LAMBDA v : Truthy(v)), LAMBDA kept :
        [i \in 1..Len(kept) |-> kept[i].val])

\* if figure: the line is written
Shown(figure) == IF Truthy(figure) THEN figure ELSE None

TrendsError ==
    [kind |-> "bolagsverket_trends", error |-> TRUE, data |-> <<>>,
     cagr_oms |-> None, cagr_ek |-> None,
     prog_oms |-> None, prog_res |-> None, prog_ek |-> None]

\* lines 4262-4298: the growth rates and the forecasts of the columns
TrendsFigures(data) ==
    WithValue(
        <<TruthyValues([i \in 1..Len(data) |-> data[i].omsattning]),
          TruthyValues([i \in 1..Len(data) |-> data[i].resultat]),
          TruthyValues([i \in 1..Len(data) |-> data[i].eget_kapital])>>,
        LAMBDA v :
            WithValue(
                <<[k \in 1..2 |-> calculate_cagr(v[2 * k - 1], Len(data) - 1)],
                  [k \in 1..3 |-> linear_forecast([i \in 1..Len(v[k]) |-> Some(v[k][i])])]>>,
                LAMBDA f :
                    [kind |-> "bolagsverket_trends", error |-> FALSE, data |-> data,
                     cagr_oms |-> Shown(f[1][1]), cagr_ek |-> Shown(f[1][2]),
                     prog_oms |-> Shown(f[2][1]), prog_res |-> Shown(f[2][2]),
                     prog_ek |-> Shown(f[2][3])]))

\* bolagsverket_trends once the document list is fetched (lines 4197-4301)
TrendsResult(dokumentlista, max_years) ==
    WithValue(SubSeq(dokumentlista, 1,
                     IF Len(dokumentlista) < max_years THEN Len(dokumentlista)
                     ELSE max_years),
        LAMBDA dokument :
            IF Len(dokument) < 2 THEN TrendsError
            ELSE WithValue(TrendsData(dokument), LAMBDA data :
                    IF Len(data) < 2 THEN TrendsError ELSE TrendsFigures(data)))

(***************************************************************************)
(* Specification SpecTrends: the document list of a company, what each     *)
(* download gives, and calls of bolagsverket_trends.                       *)
(***************************************************************************)
MaxDokument == 3

\* the annual reports: revenue, net income and equity; revenue and net
\* income; no fact at all; a revenue whose scale overflows the float
TrendReports ==
    {<<Fact(Nettoomsattning, "period0", Num(<<"1", "0", "0">>)),
       Fact(AretsResultat, "period0", Num(<<"1">>)),
       Fact(EgetKapital, "balans0", Num(<<"1", "0", "0">>))>>,
     <<Fact(Nettoomsattning, "period0", Num(<<"1", "2", "5">>)),
       Fact(AretsResultat, "period0", Num(<<"2">>))>>,
     <<>>,
     <<Fact(Nettoomsattning, "period0", Enc(<<"1">>, <<"4", "0", "0">>, Absent))>>}

DokumentOutcomes ==
    {[status |-> "download_error", soup |-> <<>>], [status |-> "no_xhtml", soup |-> <<>>]}
        \cup {[status |-> "ok", soup |-> s] : s \in TrendReports}

InitTrends ==
    /\ soup = <<>>
    /\ call = NoCall
    /\ value = None
    /\ nyckeltal = NoNyckeltal
    /\ flaggor = <<>>
    /\ flaggor_v4 = <<>>
    /\ cache_manager = {}
    /\ token_manager = NoToken
    /\ clock = 0
    /\ last_set = <<>>
    /\ result = NoResult
    /\ \E dokumentlista \in UNION {SeriesOfLen(DokumentOutcomes, n) : n \in 0..MaxDokument},
          max_years \in {2, 5} :
            api = [kind |-> "dokumentlista", dokument |-> dokumentlista,
                   max_years |-> max_years]

\* bolagsverket_trends(params) for a valid number whose document list is
\* fetched
CallTrends ==
    /\ call = NoCall
    /\ call' = [op |-> "bolagsverket_trends", pattern |-> <<>>, context |-> "ok"]
    /\ result' = TrendsResult(api.dokument, api.max_years)
    /\ UNCHANGED <<soup, value, nyckeltal, flaggor, flaggor_v4, api,
                 cache_manager, token_manager, clock, last_set>>

\* bolagsverket_trends(params) when validate_org_nummer rejects the number
\* (line 4191) or the request of the document list raises (line 4303)
CallTrendsFails ==
    /\ call = NoCall
    /\ call' = [op |-> "bolagsverket_trends", pattern |-> <<>>, context |-> "error"]
    /\ result' = TrendsError
    /\ UNCHANGED <<soup, value, nyckeltal, flaggor, flaggor_v4, api,
                 cache_manager, token_manager, clock, last_set>>

NextTrends == CallTrends \/ CallTrendsFails

SpecTrends == InitTrends /\ [][NextTrends]_vars

\* C20: in bolagsverket_trends a document that fails to download or to parse
\* does not end the analysis: the history holds a row for exactly the
\* documents that succeeded, in their order; and when fewer than two succeed
\* the tool answers with an error and gives no growth rate and no forecast.
C20_FailuresAreNotFatal ==
    (call.op = "bolagsverket_trends" /\ call.context = "ok") =>
        LET considered ==
                SubSeq(api.dokument, 1,
                       IF Len(api.dokument) < api.max_years THEN Len(api.dokument)
                       ELSE api.max_years)
            Succeeded(i) ==
                /\ considered[i].status = "ok"
                /\ ~get_nyckeltal(considered[i].soup, "period0").raised
            succeeded == {i \in 1..Len(considered) : Succeeded(i)}
        IN  IF Cardinality(succeeded) < 2
            THEN /\ result.error
                 /\ result.data = <<>>
                 /\ {result.cagr_oms, result.cagr_ek, result.prog_oms,
                     result.prog_res, result.prog_ek} = {None}
            ELSE /\ ~result.error
                 /\ Len(result.data) = Cardinality(succeeded)
                 /\ \A k \in 1..Len(result.data) :
                        /\ result.data[k].period + 1 \in succeeded
                        /\ k > 1 => result.data[k - 1].period < result.data[k].period
                        /\ result.data[k].omsattning =
                              get_value(considered[result.data[k].period + 1].soup,
                                        Nettoomsattning, "period0")

\* C20 witness: of three listed documents the second failed to download, and
\* the history holds the first and the third.
C20_Witness ==
    /\ call.op = "bolagsverket_trends"
    /\ call.context = "ok"
    /\ Len(api.dokument) = 3
    /\ api.dokument[1].status = "ok"
    /\ api.dokument[2].status = "download_error"
    /\ ~result.error
    /\ Len(result.data) = 2
    /\ result.data[1].period = 0
    /\ result.data[2].period = 2
    /\ result.prog_oms = Some(150)

(***************************************************************************)
(* The signatories of a report: IXBRLParser.get_personer,                  *)
(* IXBRLParser.get_personer_detaljerad and the roster that                 *)
(* fetch_full_arsredovisning makes of get_personer.  A signatory is an     *)
(* ix:nonnumeric tag holding a first name; the tags with the last name     *)
(* and the role carry the same tupleref.  The letters outside ASCII are    *)
(* the symbols "U00F6" (o with diaeresis) and "U00E4" (a with diaeresis);  *)
(* the documents below hold no upper-case form of them.                    *)
(***************************************************************************)
\* A tuple (fornamn_pat, efternamn_pat, roll_pat) of the list `patterns`;
\* roll_pat is Absent where the code has None
PersonPattern(fornamn_pat, efternamn_pat, roll_pat) ==
    [fornamn_pat |-> fornamn_pat, efternamn_pat |-> efternamn_pat,
     roll_pat |-> roll_pat]

ForetradareTilltalsnamn == <<"U", "n", "d", "e", "r", "s", "k", "r", "i", "f", "t", "F", "a", "s", "t", "s", "t", "a", "l", "l", "e", "l", "s", "e", "i", "n", "t", "y", "g", "F", "o", "r", "e", "t", "r", "a", "d", "a", "r", "e", "T", "i", "l", "l", "t", "a", "l", "s", "n", "a", "m", "n">>

ForetradareEfternamn == <<"U", "n", "d", "e", "r", "s", "k", "r", "i", "f", "t", "F", "a", "s", "t", "s", "t", "a", "l", "l", "e", "l", "s", "e", "i", "n", "t", "y", "g", "F", "o", "r", "e", "t", "r", "a", "d", "a", "r", "e", "E", "f", "t", "e", "r", "n", "a", "m", "n">>

ForetradareForetradarroll == <<"U", "n", "d", "e", "r", "s", "k", "r", "i", "f", "t", "F", "a", "s", "t", "s", "t", "a", "l", "l", "e", "l", "s", "e", "i", "n", "t", "y", "g", "F", "o", "r", "e", "t", "r", "a", "d", "a", "r", "e", "F", "o", "r", "e", "t", "r", "a", "d", "a", "r", "r", "o", "l", "l">>

HandlingTilltalsnamn == <<"U", "n", "d", "e", "r", "s", "k", "r", "i", "f", "t", "H", "a", "n", "d", "l", "i", "n", "g", "T", "i", "l", "l", "t", "a", "l", "s", "n", "a", "m", "n">>

HandlingEfternamn == <<"U", "n", "d", "e", "r", "s", "k", "r", "i", "f", "t", "H", "a", "n", "d", "l", "i", "n", "g", "E", "f", "t", "e", "r", "n", "a", "m", "n">>

RevisorTilltalsnamn == <<"U", "n", "d", "e", "r", "s", "k", "r", "i", "f", "t", "R", "e", "v", "i", "s", "i", "o", "n", "s", "b", "e", "r", "a", "t", "t", "e", "l", "s", "e", "R", "e", "v", "i", "s", "o", "r", "T", "i", "l", "l", "t", "a", "l", "s", "n", "a", "m", "n">>

RevisorEfternamn == <<"U", "n", "d", "e", "r", "s", "k", "r", "i", "f", "t", "R", "e", "v", "i", "s", "i", "o", "n", "s", "b", "e", "r", "a", "t", "t", "e", "l", "s", "e", "R", "e", "v", "i", "s", "o", "r", "E", "f", "t", "e", "r", "n", "a", "m", "n">>

RevisorTitel == <<"U", "n", "d", "e", "r", "s", "k", "r", "i", "f", "t", "R", "e", "v", "i", "s", "i", "o", "n", "s", "b", "e", "r", "a", "t", "t", "e", "l", "s", "e", "R", "e", "v", "i", "s", "o", "r", "T", "i", "t", "e", "l">>

ForetradarePattern ==
    PersonPattern(ForetradareTilltalsnamn, ForetradareEfternamn, ForetradareForetradarroll)

RevisorPattern == PersonPattern(RevisorTilltalsnamn, RevisorEfternamn, RevisorTitel)

\* the list `patterns` of get_personer
PersonPatterns ==
    <<ForetradarePattern,
      PersonPattern(HandlingTilltalsnamn, HandlingEfternamn, Absent),
      RevisorPattern>>

Person(fornamn, efternamn, roll) ==
    [fornamn |-> fornamn, efternamn |-> efternamn, roll |-> roll]

\* lambda x: x and pat in x
NameHas(name, pat) == name # Absent /\ name # <<>> /\ Contains(name, pat)

\* soup.find('ix:nonnumeric', {'name': ..., 'tupleref': tuple_ref}) and, of
\* the tag found, text.strip(); `default` when there is no such tag
TupleText(doc, pat, tuple_ref, default) ==
    LET hits == {i \in 1..Len(doc) :
                    doc[i].tupleref = tuple_ref /\ NameHas(doc[i].name, pat)}
    IN  IF hits = {} THEN default
        ELSE Strip(doc[CHOOSE i \in hits : \A j \in hits : i <= j].text)

\* if tuple_ref:
HasTupleRef(tag) == tag.tupleref # Absent /\ tag.tupleref # <<>>

\* the role of a signatory without a role text (lines 1326-1332)
InferredRoll(fornamn_pat) ==
    IF Contains(fornamn_pat, <<"R", "e", "v", "i", "s", "o", "r">>) THEN <<"R", "e", "v", "i", "s", "o", "r">>
    ELSE IF Contains(fornamn_pat, <<"F", "o", "r", "e", "t", "r", "a", "d", "a", "r">>) THEN <<"F", "U00F6", "r", "e", "t", "r", "U00E4", "d", "a", "r", "e">>
    ELSE <<"S", "t", "y", "r", "e", "l", "s", "e", "l", "e", "d", "a", "m", "o", "t">>

\* the body of the inner loop of get_personer up to the key (lines 1304-1334)
PersonOfTag(doc, tag, pat) ==
    WithValue(
        IF HasTupleRef(tag) /\ pat.roll_pat # Absent
        THEN TupleText(doc, pat.roll_pat, tag.tupleref, <<>>)
        ELSE <<>>,
        LAMBDA roll :
            Person(Strip(tag.text),
                   IF HasTupleRef(tag)
                   THEN TupleText(doc, pat.efternamn_pat, tag.tupleref, <<>>)
                   ELSE <<>>,
                   IF roll = <<>> THEN InferredRoll(pat.fornamn_pat) ELSE roll))

\* the signatories of one tag family in document order (soup.find_all)
FamilyPersons(doc, pat) ==
    WithValue(
        SelectSeq(doc, LAMBDA t : NameHas(t.name, pat.fornamn_pat)),
        LAMBDA hits : [i \in 1..Len(hits) |-> PersonOfTag(doc, hits[i], pat)])

\* the key of the set `seen` with the role left out
PersonKey_NameOnly(p) == <<p.fornamn, p.efternamn>>

\* key = (fornamn, efternamn, roll)
PersonKey(p) == <<p.fornamn, p.efternamn, p.roll>>

RECURSIVE KeepUnseen(_, _)
\* if key not in seen and fornamn: seen.add(key); personer.append(...)
KeepUnseen(cands, i) ==
    IF i > Len(cands) THEN <<>>
    ELSE (IF /\ cands[i].fornamn # <<>>
             /\ \A j \in 1..(i - 1) : PersonKey(cands[j]) # PersonKey(cands[i])
          THEN <<cands[i]>> ELSE <<>>) \o KeepUnseen(cands, i + 1)

get_personer(doc) ==
    KeepUnseen(
        Concat([k \in 1..Len(PersonPatterns) |-> FamilyPersons(doc, PersonPatterns[k])]),
        1)

\* 'vd' in roll.lower() or 'verkställande' in roll.lower()
IsVd(roll) ==
    WithValue(Lower(roll),
              LAMBDA r : Contains(r, <<"v", "d">>) \/ Contains(r, <<"v", "e", "r", "k", "s", "t", "U00E4", "l", "l", "a", "n", "d", "e">>))

\* 'ordförande' in roll.lower()
IsOrdforande(roll) == Contains(Lower(roll), <<"o", "r", "d", "f", "U00F6", "r", "a", "n", "d", "e">>)

\* 'revisor' in p.roll.lower()
IsRevisor(roll) == Contains(Lower(roll), <<"r", "e", "v", "i", "s", "o", "r">>)

\* the loop body of get_personer_detaljerad up to the key (lines 1390-1409 and
\* 1424-1443): the role starts as `default` and an empty role text replaces it
DetaljeradPersons(doc, pat, default) ==
    WithValue(
        SelectSeq(doc, LAMBDA t : NameHas(t.name, pat.fornamn_pat)),
        LAMBDA hits :
            [i \in 1..Len(hits) |->
                Person(Strip(hits[i].text),
                       IF HasTupleRef(hits[i])
                       THEN TupleText(doc, pat.efternamn_pat, hits[i].tupleref, <<>>)
                       ELSE <<>>,
                       IF HasTupleRef(hits[i])
                       THEN TupleText(doc, pat.roll_pat, hits[i].tupleref, default)
                       ELSE default)])

RECURSIVE DetaljeradUnseen(_, _)
\* key = (fornamn, efternamn); if key not in seen and fornamn
DetaljeradUnseen(cands, i) ==
    IF i > Len(cands) THEN <<>>
    ELSE (IF /\ cands[i].fornamn # <<>>
             /\ \A j \in 1..(i - 1) :
                    <<cands[j].fornamn, cands[j].efternamn>>
                        # <<cands[i].fornamn, cands[i].efternamn>>
          THEN <<cands[i]>> ELSE <<>>) \o DetaljeradUnseen(cands, i + 1)

RECURSIVE StyrelseOf(_)
\* the board list after the signatories `personer` were handled in order:
\* a chair is inserted in front (styrelse.insert(0, person)), a CEO goes to
\* vd, anyone else is appended
StyrelseOf(personer) ==
    IF personer = <<>> THEN <<>>
    ELSE WithValue(
            personer[Len(personer)],
            LAMBDA p :
                IF IsVd(p.roll) THEN StyrelseOf(SubSeq(personer, 1, Len(personer) - 1))
                ELSE IF IsOrdforande(p.roll)
                THEN <<p>> \o StyrelseOf(SubSeq(personer, 1, Len(personer) - 1))
                ELSE Append(StyrelseOf(SubSeq(personer, 1, Len(personer) - 1)), p))

\* vd = person: the last CEO handled, None when there is none
LastVd(personer) ==
    WithValue(
        SelectSeq(personer, LAMBDA p : IsVd(p.roll)),
        LAMBDA vds : IF vds = <<>> THEN None ELSE vds[Len(vds)])

\* (styrelse, revisorer, vd).  The set `seen` is shared by the two loops.
get_personer_detaljerad(doc) ==
    WithValue(
        DetaljeradPersons(doc, ForetradarePattern, <<"S", "t", "y", "r", "e", "l", "s", "e", "l", "e", "d", "a", "m", "o", "t">>),
        LAMBDA foretradare :
            WithValue(
                DetaljeradUnseen(
                    foretradare \o DetaljeradPersons(doc, RevisorPattern, <<"R", "e", "v", "i", "s", "o", "r">>), 1),
                LAMBDA kept :
                    WithValue(
                        Len(DetaljeradUnseen(foretradare, 1)),
                        LAMBDA n :
                            [styrelse |-> StyrelseOf(SubSeq(kept, 1, n)),
                             revisorer |-> SubSeq(kept, n + 1, Len(kept)),
                             vd |-> LastVd(SubSeq(kept, 1, n))])))

\* the roster of fetch_full_arsredovisning (lines 3705-3714): every person is
\* appended to its list in the order of get_personer
RosterOf(personer) ==
    WithValue(
        SelectSeq(personer, LAMBDA p : ~IsRevisor(p.roll)),
        LAMBDA others :
            [styrelse |-> SelectSeq(others, LAMBDA p : ~IsVd(p.roll)),
             revisorer |-> SelectSeq(personer, LAMBDA p : IsRevisor(p.roll)),
             vd |-> LastVd(others)])

(***************************************************************************)
(* Specification SpecPersoner: a report signed by up to MaxSigners         *)
(* signatories, and calls of get_personer, get_personer_detaljerad and     *)
(* fetch_full_arsredovisning.                                              *)
(***************************************************************************)
MaxSigners == 3

NonNumeric(name, tupleref, text) == [name |-> name, tupleref |-> tupleref, text |-> text]

\* the tags of one signature: a first name, and with a tupleref the last name
\* and the role
Signature(pat, prefix, tupleref, fornamn, efternamn, roll) ==
    <<NonNumeric(prefix \o pat.fornamn_pat, tupleref, fornamn)>>
    \o (IF efternamn = Absent THEN <<>>
        ELSE <<NonNumeric(prefix \o pat.efternamn_pat, tupleref, efternamn)>>)
    \o (IF roll = Absent THEN <<>>
        ELSE <<NonNumeric(prefix \o pat.roll_pat, tupleref, roll)>>)

Signatures ==
    {Signature(ForetradarePattern, <<"s", "e", "-", "g", "e", "n", "-", "b", "a", "s", "e", ":">>, <<"t", "1">>, <<"A", "n", "n", "a">>, <<" ", "B", "e", "r", "g">>, <<"S", "t", "y", "r", "e", "l", "s", "e", "l", "e", "d", "a", "m", "o", "t">>),
     Signature(ForetradarePattern, <<>>, <<"t", "2">>, <<"A", "n", "n", "a">>, <<"B", "e", "r", "g">>, <<"V", "D">>),
     Signature(ForetradarePattern, <<>>, <<"t", "3">>, <<"B", "o">>, <<"E", "k">>, <<"S", "t", "y", "r", "e", "l", "s", "e", "o", "r", "d", "f", "U00F6", "r", "a", "n", "d", "e">>),
     Signature(ForetradarePattern, <<>>, <<"t", "4">>, <<"E", "v", "a">>, <<"E", "k">>, <<"v", "e", "r", "k", "s", "t", "U00E4", "l", "l", "a", "n", "d", "e", " ", "d", "i", "r", "e", "k", "t", "U00F6", "r">>),
     Signature(ForetradarePattern, <<>>, Absent, <<"C", "i", "a">>, Absent, Absent),
     Signature(ForetradarePattern, <<>>, Absent, <<" ">>, Absent, Absent),
     Signature(PersonPatterns[2], <<>>, <<"t", "5">>, <<"A", "n", "n", "a", " ">>, <<"B", "e", "r", "g">>, Absent),
     Signature(PersonPatterns[2], <<>>, Absent, <<"C", "i", "a">>, Absent, Absent),
     Signature(RevisorPattern, <<>>, <<"t", "6">>, <<"D", "a", "n">>, <<"F", "o", "r", "s">>, <<"A", "u", "k", "t", "o", "r", "i", "s", "e", "r", "a", "d", " ", "r", "e", "v", "i", "s", "o", "r">>),
     Signature(RevisorPattern, <<>>, <<"t", "7">>, <<"A", "n", "n", "a">>, <<"B", "e", "r", "g">>, Absent)}

RECURSIVE ReportsOfLen(_)
ReportsOfLen(n) ==
    IF n = 0 THEN {<<>>}
    ELSE {r \o s : r \in ReportsOfLen(n - 1), s \in Signatures}

InitPersoner ==
    /\ soup \in UNION {ReportsOfLen(n) : n \in 0..MaxSigners}
    /\ call = NoCall
    /\ value = None
    /\ nyckeltal = NoNyckeltal
    /\ flaggor = <<>>
    /\ flaggor_v4 = <<>>
    /\ cache_manager = {}
    /\ token_manager = NoToken
    /\ clock = 0
    /\ last_set = <<>>
    /\ result = NoResult
    /\ api = NoApi

\* parser.get_personer()
CallGetPersoner ==
    /\ call = NoCall
    /\ call' = [op |-> "get_personer", pattern |-> <<>>, context |-> NoContext]
    /\ result' = [kind |-> "get_personer", personer |-> get_personer(soup)]
    /\ UNCHANGED <<soup, value, nyckeltal, flaggor, flaggor_v4, api,
                 cache_manager, token_manager, clock, last_set>>

\* parser.get_personer_detaljerad()
CallGetPersonerDetaljerad ==
    /\ call = NoCall
    /\ call' = [op |-> "get_personer_detaljerad", pattern |-> <<>>,
                context |-> NoContext]
    /\ result' = [kind |-> "roster"] @@ get_personer_detaljerad(soup)
    /\ UNCHANGED <<soup, value, nyckeltal, flaggor, flaggor_v4, api,
                 cache_manager, token_manager, clock, last_set>>

\* fetch_full_arsredovisning(org_nummer, 0) on a fetched report: its styrelse,
\* revisorer and vd.  The reports of this specification hold no ix:nonfraction
\* tag, so the figures are those of the empty statement.
CallFetchFullRoster ==
    /\ call = NoCall
    /\ \E full \in {fetch_full_arsredovisning(<<>>)} :
        /\ call' = [op |-> "fetch_full_arsredovisning", pattern |-> <<>>,
                    context |-> "ok"]
        /\ result' = [kind |-> "roster"] @@ RosterOf(get_personer(soup))
        /\ nyckeltal' = full.nyckeltal
    /\ UNCHANGED <<soup, value, flaggor, flaggor_v4, api,
                 cache_manager, token_manager, clock, last_set>>

NextPersoner == CallGetPersoner \/ CallGetPersonerDetaljerad \/ CallFetchFullRoster

SpecPersoner == InitPersoner /\ [][NextPersoner]_vars

\* the names and roles that the signatures of a report state, family by family
\* and in document order inside a family
SignedAs(doc) ==
    Concat([k \in 1..Len(PersonPatterns) |-> FamilyPersons(doc, PersonPatterns[k])])

\* C21: get_personer returns no two records with the same (first name, last
\* name, role); every (name, role) that the signatures state with a first name
\* is returned exactly once, in the order of first occurrence, so that identical
\* tuples of different tag families collapse and one name with two roles gives
\* two records; and a first-name tag without tupleref gives a record with an
\* empty last name and the role of its family: Företrädare for the
\* representatives, Styrelseledamot for the signatures of the document, Revisor
\* for the auditors.
C21_DistinctPersons ==
    call.op = "get_personer" =>
        \E signed \in {SignedAs(soup)} :
            LET personer == result.personer
                First(p) == CHOOSE i \in 1..Len(signed) :
                                /\ signed[i] = p
                                /\ \A j \in 1..(i - 1) : signed[j] # p
                FamilyRoll == <<<<"F", "U00F6", "r", "e", "t", "r", "U00E4", "d", "a", "r", "e">>, <<"S", "t", "y", "r", "e", "l", "s", "e", "l", "e", "d", "a", "m", "o", "t">>, <<"R", "e", "v", "i", "s", "o", "r">>>>
            IN  /\ \A i, j \in 1..Len(personer) : i # j => personer[i] # personer[j]
                /\ {personer[i] : i \in 1..Len(personer)}
                     = {signed[i] : i \in {j \in 1..Len(signed) : signed[j].fornamn # <<>>}}
                /\ \A i, j \in 1..Len(personer) :
                        i < j => First(personer[i]) < First(personer[j])
                /\ \A i \in 1..Len(soup) : \A k \in 1..3 :
                        (/\ Contains(soup[i].name, PersonPatterns[k].fornamn_pat)
                         /\ soup[i].tupleref = Absent
                         /\ Strip(soup[i].text) # <<>>)
                        => \E n \in 1..Len(personer) :
                                personer[n] = Person(Strip(soup[i].text), <<>>, FamilyRoll[k])

\* C21 witness: Anna Berg signs as board member in the representative family
\* and in the family of the document, and as VD; Cia signs without tupleref.
\* The two board signatures collapse, the VD signature stays, and Cia is a
\* Företrädare without last name.
C21_Witness ==
    /\ call.op = "get_personer"
    /\ Len(soup) > Len(result.personer) + 3
    /\ \E i, j \in 1..Len(result.personer) :
        /\ result.personer[i] = Person(<<"A", "n", "n", "a">>, <<"B", "e", "r", "g">>, <<"S", "t", "y", "r", "e", "l", "s", "e", "l", "e", "d", "a", "m", "o", "t">>)
        /\ result.personer[j] = Person(<<"A", "n", "n", "a">>, <<"B", "e", "r", "g">>, <<"V", "D">>)
    /\ \E i \in 1..Len(soup) :
        /\ soup[i].name = HandlingTilltalsnamn
        /\ soup[i].tupleref = <<"t", "5">>

\* C25, as stated: in the roster of get_personer_detaljerad and of
\* fetch_full_arsredovisning, a signatory whose role holds 'vd' or
\* 'verkställande' is returned as vd and is not in styrelse, and in styrelse no
\* member who is not a chair ('ordförande' in the role) precedes a chair.
C25_CeoAndChairFirst ==
    call.op \in {"get_personer_detaljerad", "fetch_full_arsredovisning"} =>
        /\ \A i \in 1..Len(result.styrelse) : ~IsVd(result.styrelse[i].roll)
        /\ (\E i \in 1..Len(soup) :
                /\ Contains(soup[i].name, ForetradareForetradarroll)
                /\ IsVd(soup[i].text)
                /\ \E j \in 1..Len(soup) :
                    /\ Contains(soup[j].name, ForetradareTilltalsnamn)
                    /\ soup[j].tupleref = soup[i].tupleref
                    /\ Strip(soup[j].text) # <<>>)
            => (result.vd # None /\ IsVd(result.vd.roll))
        /\ \A i, j \in 1..Len(result.styrelse) :
                (i < j /\ IsOrdforande(result.styrelse[j].roll))
                    => IsOrdforande(result.styrelse[i].roll)

(***************************************************************************)
(* The BAS account ranges: BAS_KONTO_MAPPNING, get_bas_kontogrupp and      *)
(* IXBRLParser.get_bas_mappning with IXBRLParser._parse_numeric_tag.       *)
(***************************************************************************)
BasRow(key, konto) == [key |-> key, value |-> konto]

\* the dict in declaration order, which is the order of .items()
BAS_KONTO_MAPPNING ==
    <<
      BasRow(<<"I", "m", "m", "a", "t", "e", "r", "i", "e", "l", "l", "A", "n", "l", "a", "g", "g", "n", "i", "n", "g", "s", "t", "i", "l", "l", "g", "a", "n", "g", "a", "r">>, "10xx"),
      BasRow(<<"B", "a", "l", "a", "n", "s", "e", "r", "a", "d", "e", "U", "t", "g", "i", "f", "t", "e", "r", "U", "t", "v", "e", "c", "k", "l", "i", "n", "g", "s", "a", "r", "b", "e", "t", "e", "n", "L", "i", "k", "n", "a", "n", "d", "e">>, "1010-1019"),
      BasRow(<<"G", "o", "o", "d", "w", "i", "l", "l">>, "1050-1059"),
      BasRow(<<"M", "a", "t", "e", "r", "i", "e", "l", "l", "a", "A", "n", "l", "a", "g", "g", "n", "i", "n", "g", "s", "t", "i", "l", "l", "g", "a", "n", "g", "a", "r">>, "11xx-12xx"),
      BasRow(<<"B", "y", "g", "g", "n", "a", "d", "e", "r", "M", "a", "r", "k">>, "11xx"),
      BasRow(<<"M", "a", "s", "k", "i", "n", "e", "r", "A", "n", "d", "r", "a", "T", "e", "k", "n", "i", "s", "k", "a", "A", "n", "l", "a", "g", "g", "n", "i", "n", "g", "a", "r">>, "12xx"),
      BasRow(<<"I", "n", "v", "e", "n", "t", "a", "r", "i", "e", "r", "V", "e", "r", "k", "t", "y", "g", "I", "n", "s", "t", "a", "l", "l", "a", "t", "i", "o", "n", "e", "r">>, "1220-1229"),
      BasRow(<<"F", "i", "n", "a", "n", "s", "i", "e", "l", "l", "a", "A", "n", "l", "a", "g", "g", "n", "i", "n", "g", "s", "t", "i", "l", "l", "g", "a", "n", "g", "a", "r">>, "13xx"),
      BasRow(<<"A", "n", "d", "e", "l", "a", "r", "K", "o", "n", "c", "e", "r", "n", "f", "o", "r", "e", "t", "a", "g">>, "1310-1319"),
      BasRow(<<"V", "a", "r", "u", "l", "a", "g", "e", "r", "M", "m">>, "14xx"),
      BasRow(<<"K", "u", "n", "d", "f", "o", "r", "d", "r", "i", "n", "g", "a", "r">>, "1510-1519"),
      BasRow(<<"K", "a", "s", "s", "a", "B", "a", "n", "k">>, "19xx"),
      BasRow(<<"A", "k", "t", "i", "e", "k", "a", "p", "i", "t", "a", "l">>, "2081"),
      BasRow(<<"B", "a", "l", "a", "n", "s", "e", "r", "a", "t", "R", "e", "s", "u", "l", "t", "a", "t">>, "2091-2098"),
      BasRow(<<"A", "r", "e", "t", "s", "R", "e", "s", "u", "l", "t", "a", "t", "E", "g", "e", "t", "K", "a", "p", "i", "t", "a", "l">>, "2099"),
      BasRow(<<"L", "a", "n", "g", "f", "r", "i", "s", "t", "i", "g", "a", "S", "k", "u", "l", "d", "e", "r">>, "23xx-24xx"),
      BasRow(<<"K", "o", "r", "t", "f", "r", "i", "s", "t", "i", "g", "a", "S", "k", "u", "l", "d", "e", "r">>, "25xx-29xx"),
      BasRow(<<"L", "e", "v", "e", "r", "a", "n", "t", "o", "r", "s", "s", "k", "u", "l", "d", "e", "r">>, "2440-2449"),
      BasRow(<<"N", "e", "t", "t", "o", "o", "m", "s", "a", "t", "t", "n", "i", "n", "g">>, "30xx-37xx"),
      BasRow(<<"O", "v", "r", "i", "g", "a", "R", "o", "r", "e", "l", "s", "e", "i", "n", "t", "a", "k", "t", "e", "r">>, "39xx"),
      BasRow(<<"H", "a", "n", "d", "e", "l", "s", "v", "a", "r", "o", "r", "K", "o", "s", "t", "n", "a", "d", "e", "r">>, "40xx-49xx"),
      BasRow(<<"O", "v", "r", "i", "g", "a", "E", "x", "t", "e", "r", "n", "a", "K", "o", "s", "t", "n", "a", "d", "e", "r">>, "50xx-69xx"),
      BasRow(<<"P", "e", "r", "s", "o", "n", "a", "l", "k", "o", "s", "t", "n", "a", "d", "e", "r">>, "70xx-76xx"),
      BasRow(<<"A", "v", "s", "k", "r", "i", "v", "n", "i", "n", "g", "a", "r", "N", "e", "d", "s", "k", "r", "i", "v", "n", "i", "n", "g", "a", "r", "M", "a", "t", "e", "r", "i", "e", "l", "l", "a", "I", "m", "m", "a", "t", "e", "r", "i", "e", "l", "l", "a", "A", "n", "l", "a", "g", "g", "n", "i", "n", "g", "s", "t", "i", "l", "l", "g", "a", "n", "g", "a", "r">>, "78xx"),
      BasRow(<<"F", "i", "n", "a", "n", "s", "i", "e", "l", "l", "a", "I", "n", "t", "a", "k", "t", "e", "r">>, "80xx-82xx"),
      BasRow(<<"F", "i", "n", "a", "n", "s", "i", "e", "l", "l", "a", "K", "o", "s", "t", "n", "a", "d", "e", "r">>, "83xx-84xx"),
      BasRow(<<"S", "k", "a", "t", "t", "A", "r", "e", "t", "s", "R", "e", "s", "u", "l", "t", "a", "t">>, "89xx")
    >>

\* key.lower() in begrepp.lower()
BasMatch_KeyInBegrepp(key, begrepp) == Contains(Lower(begrepp), Lower(key))

\* key.lower() in begrepp.lower() or begrepp.lower() in key.lower()
BasMatch(key, begrepp) ==
    \/ Contains(Lower(begrepp), Lower(key))
    \/ Contains(Lower(key), Lower(begrepp))

\* the account range of a concept, PyNone when the function returns None
get_bas_kontogrupp(begrepp) ==
    LET exact == {i \in 1..Len(BAS_KONTO_MAPPNING) : BAS_KONTO_MAPPNING[i].key = begrepp}
    IN  IF exact # {}
        THEN BAS_KONTO_MAPPNING[CHOOSE i \in exact : TRUE].value
        ELSE WithValue(
                {i \in 1..Len(BAS_KONTO_MAPPNING) :
                    BasMatch(BAS_KONTO_MAPPNING[i].key, begrepp)},
                LAMBDA hits :
                    IF hits = {} THEN PyNone
                    ELSE BAS_KONTO_MAPPNING[CHOOSE i \in hits : \A j \in hits : i <= j].value)

\* IXBRLParser._parse_numeric_tag: the separators of the default branch of
\* _get_value whatever the format, then the same conversion
parse_numeric_tag(tag) ==
    NumericValue(NormalizeText(tag.text, "none"),
                 Attr(tag.scale, <<"0">>), Attr(tag.sign, <<>>))

\* name.split(':')[1] when ':' in name: the text between the first colon and
\* the second one (or the end)
LocalName(name) ==
    LET colons == {i \in 1..Len(name) : name[i] = ":"}
    IN  IF colons = {} THEN name
        ELSE LET first == CHOOSE i \in colons : \A j \in colons : i <= j
                 later == {i \in colons : i > first}
             IN  SubSeq(name, first + 1,
                        IF later = {} THEN Len(name)
                        ELSE (CHOOSE i \in later : \A j \in later : i <= j) - 1)

\* what the loop of get_bas_mappning does with one tag: the entry it assigns to
\* mappings[name], or nothing
BasEntry(tag) ==
    WithValue(
        LocalName(Attr(tag.name, <<>>)),
        LAMBDA name :
            WithValue(
                parse_numeric_tag(tag),
                LAMBDA v :
                    IF v = Raised
                    THEN [kind |-> "raise"]
                    ELSE IF v = None THEN [kind |-> "skip"]
                    ELSE WithValue(
                            get_bas_kontogrupp(name),
                            LAMBDA bas :
                                IF bas = PyNone THEN [kind |-> "skip"]
                                ELSE [kind |-> "entry", name |-> name, varde |-> v.val,
                                      bas_konto |-> bas, context |-> tag.contextref])))

\* mappings: the keys in the order of their first assignment, each with the
\* value of its last assignment (mappings[name] = {...})
BasMappings(entries) ==
    LET set == SelectSeq(entries, LAMBDA e : e.kind = "entry")
        firsts == {i \in 1..Len(set) : \A j \in 1..(i - 1) : set[j].name # set[i].name}
        Last(name) == CHOOSE i \in 1..Len(set) :
                        /\ set[i].name = name
                        /\ \A j \in (i + 1)..Len(set) : set[j].name # name
    IN  [i \in 1..Len(set) |-> IF i \in firsts THEN set[Last(set[i].name)] ELSE [kind |-> "skip"]]

get_bas_mappning(doc) ==
    WithValue(
        [i \in 1..Len(doc) |-> BasEntry(doc[i])],
        LAMBDA entries :
            IF \E i \in 1..Len(entries) : entries[i].kind = "raise"
            THEN [raised |-> TRUE, mappings |-> <<>>]
            ELSE [raised |-> FALSE,
                  mappings |-> SelectSeq(BasMappings(entries), LAMBDA e : e.kind = "entry")])

(***************************************************************************)
(* Specification SpecBas: a statement of up to MaxBasTags numeric tags,    *)
(* and calls of get_bas_kontogrupp and get_bas_mappning.                   *)
(***************************************************************************)
MaxBasTags == 2

BasTag(name, contextref, text, scale, sign) ==
    [name |-> name, contextref |-> contextref, text |-> text, format |-> "none",
     scale |-> scale, sign |-> sign]

BasTags ==
    {BasTag(Nettoomsattning, "period0", <<"8", "0">>, Absent, Absent),
     BasTag(Nettoomsattning, "period1", <<"5", "0">>, Absent, Absent),
     BasTag(<<"s", "e", "-", "g", "e", "n", "-", "b", "a", "s", "e", ":", "N", "e", "t", "t", "o", "o", "m", "s", "a", "t", "t", "n", "i", "n", "g">>, "period0", <<"1", " ", "2", "0", "0">>, <<"3">>, Absent),
     BasTag(<<"s", "e", "-", "g", "e", "n", "-", "b", "a", "s", "e", ":", "S", "k", "u", "l", "d", "e", "r">>, "balans0", <<"3", "0">>, Absent, <<"-">>),
     BasTag(<<"s", "e", "-", "g", "e", "n", "-", "b", "a", "s", "e", ":", "S", "o", "l", "i", "d", "i", "t", "e", "t">>, "balans0", <<"2", "5">>, Absent, Absent),
     BasTag(<<"s", "e", "-", "g", "e", "n", "-", "b", "a", "s", "e", ":", "K", "a", "s", "s", "a", "B", "a", "n", "k">>, "balans0", <<"a", "b", "c">>, Absent, Absent),
     BasTag(<<"s", "e", "-", "g", "e", "n", "-", "b", "a", "s", "e", ":", "K", "a", "s", "s", "a", "B", "a", "n", "k">>, "balans1", <<"7", ",", "5">>, Absent, Absent),
     BasTag(<<"x", ":", "G", "o", "o", "d", "w", "i", "l", "l", ":", "y">>, "balans0", <<"9">>, Absent, Absent),
     BasTag(<<"K", "u", "n", "d", "f", "o", "r", "d", "r", "i", "n", "g", "a", "r">>, "balans0", <<"1">>, <<"4", "0", "0">>, Absent),
     BasTag(Absent, "", <<"4">>, Absent, Absent)}

RECURSIVE BasDocsOfLen(_)
BasDocsOfLen(n) ==
    IF n = 0 THEN {<<>>}
    ELSE {Append(d, t) : d \in BasDocsOfLen(n - 1), t \in BasTags}

\* the concepts asked of get_bas_kontogrupp: keys of the table, parts of keys,
\* names that hold a key, other cases of the letters, the empty name and names
\* that match nothing
BasConcepts ==
    {BAS_KONTO_MAPPNING[i].key : i \in 1..Len(BAS_KONTO_MAPPNING)}
    \cup {<<"S", "k", "u", "l", "d", "e", "r">>, <<"s", "k", "u", "l", "d", "e", "r">>, <<"N", "E", "T", "T", "O", "O", "M", "S", "A", "T", "T", "N", "I", "N", "G">>, <<"N", "e", "t", "t", "o", "o", "m", "s", "a", "t", "t", "n", "i", "n", "g", "K", "o", "n", "c", "e", "r", "n">>,
          <<"R", "e", "s", "u", "l", "t", "a", "t">>, <<"A", "r", "e", "t", "s", "R", "e", "s", "u", "l", "t", "a", "t">>, <<"E", "g", "e", "t", "K", "a", "p", "i", "t", "a", "l">>, <<"T", "i", "l", "l", "g", "a", "n", "g", "a", "r">>,
          <<"A", "n", "l", "a", "g", "g", "n", "i", "n", "g", "s", "t", "i", "l", "l", "g", "a", "n", "g", "a", "r">>, <<"S", "o", "l", "i", "d", "i", "t", "e", "t">>, <<"K", "a", "s", "s", "a">>, <<"K", "a", "s", "s", "a", "B", "a", "n", "k", "X">>,
          <<"g", "o", "o", "d", "w", "i", "l", "l">>, <<"x">>, <<"Q">>, <<>>}

InitBas ==
    /\ soup \in UNION {BasDocsOfLen(n) : n \in 0..MaxBasTags}
    /\ call = NoCall
    /\ value = None
    /\ nyckeltal = NoNyckeltal
    /\ flaggor = <<>>
    /\ flaggor_v4 = <<>>
    /\ cache_manager = {}
    /\ token_manager = NoToken
    /\ clock = 0
    /\ last_set = <<>>
    /\ result = NoResult
    /\ api = NoApi

\* get_bas_kontogrupp(begrepp)
CallGetBasKontogrupp(begrepp) ==
    /\ call = NoCall
    /\ call' = [op |-> "get_bas_kontogrupp", pattern |-> begrepp, context |-> NoContext]
    /\ result' = [kind |-> "bas_konto", bas_konto |-> get_bas_kontogrupp(begrepp)]
    /\ UNCHANGED <<soup, value, nyckeltal, flaggor, flaggor_v4, api,
                 cache_manager, token_manager, clock, last_set>>

\* parser.get_bas_mappning()
CallGetBasMappning ==
    /\ call = NoCall
    /\ call' = [op |-> "get_bas_mappning", pattern |-> <<>>, context |-> NoContext]
    /\ result' = [kind |-> "bas_mappning"] @@ get_bas_mappning(soup)
    /\ UNCHANGED <<soup, value, nyckeltal, flaggor, flaggor_v4, api,
                 cache_manager, token_manager, clock, last_set>>

NextBas ==
    \/ \E begrepp \in BasConcepts : CallGetBasKontogrupp(begrepp)
    \/ CallGetBasMappning

SpecBas == InitBas /\ [][NextBas]_vars

\* C22: get_bas_kontogrupp(concept) is the account range of the table entry
\* whose key equals the concept when there is one; otherwise the account range
\* of the first entry in declaration order whose key holds the concept or is
\* held by it, letter case ignored; otherwise None.
C22_ExactThenFirstSubstring ==
    call.op = "get_bas_kontogrupp" =>
        LET T == BAS_KONTO_MAPPNING
            begrepp == call.pattern
            Within(a, b) ==
                \E i \in 0..(Len(b) - Len(a)) :
                    \A k \in 1..Len(a) : Lower(a)[k] = Lower(b)[i + k]
            Related(i) == Within(T[i].key, begrepp) \/ Within(begrepp, T[i].key)
        IN  IF \E i \in 1..Len(T) : T[i].key = begrepp
            THEN \E i \in 1..Len(T) : T[i].key = begrepp /\ result.bas_konto = T[i].value
            ELSE IF \E i \in 1..Len(T) : Related(i)
            THEN \E i \in 1..Len(T) :
                    /\ Related(i)
                    /\ \A j \in 1..(i - 1) : ~Related(j)
                    /\ result.bas_konto = T[i].value
            ELSE result.bas_konto = PyNone

\* C22 witness: 'Skulder' is no key; it is part of the keys LangfristigaSkulder,
\* KortfristigaSkulder and Leverantorsskulder, and the first of them in
\* declaration order gives the account range.
C22_Witness ==
    /\ call.op = "get_bas_kontogrupp"
    /\ call.pattern = <<"S", "k", "u", "l", "d", "e", "r">>
    /\ result.bas_konto = "23xx-24xx"

\* C26, as stated: get_bas_mappning returns one record (value, account range,
\* context id) for every numeric fact whose value parses and whose concept maps
\* to an account range, so that a concept tagged in two contexts appears twice,
\* each time with its own value and context id.
C26_OneRecordPerMappedFact ==
    (call.op = "get_bas_mappning" /\ ~result.raised) =>
        LET mapped == {i \in 1..Len(soup) :
                        /\ IsSome(parse_numeric_tag(soup[i]))
                        /\ get_bas_kontogrupp(LocalName(Attr(soup[i].name, <<>>))) # PyNone}
        IN  /\ Len(result.mappings) = Cardinality(mapped)
            /\ \A i \in mapped :
                \E n \in 1..Len(result.mappings) :
                    /\ result.mappings[n].varde = parse_numeric_tag(soup[i]).val
                    /\ result.mappings[n].context = soup[i].contextref

(***************************************************************************)
(* Organisation numbers: clean_org_nummer, luhn_checksum,                  *)
(* validate_org_nummer and the field validator of OrgNummerMixin.  The tab *)
(* character is the symbol "TAB".                                          *)
(***************************************************************************)
\* org_nummer.replace("-", "").replace(" ", "")
clean_org_nummer(org_nummer) == Replace(Replace(org_nummer, "-", <<>>), " ", <<>>)

\* str.isdigit(): at least one character and nothing but digits
IsDigit(s) == s # <<>> /\ IsDigits(s)

\* the list `digits` after the loop of luhn_checksum: every second digit from
\* the one before the last is doubled, and 9 is subtracted from a result > 9
LuhnDigits(number) ==
    [i \in 1..Len(number) |->
        IF i < Len(number) /\ (Len(number) - i) % 2 = 1
        THEN (IF 2 * DigitVal(number[i]) > 9
              THEN 2 * DigitVal(number[i]) - 9 ELSE 2 * DigitVal(number[i]))
        ELSE DigitVal(number[i])]

\* the sum without any doubling
luhn_checksum_PlainSum(number) ==
    IntSum([i \in 1..Len(number) |-> DigitVal(number[i])]) % 10 = 0

\* sum(digits) % 10 == 0
luhn_checksum(number) == IntSum(LuhnDigits(number)) % 10 = 0

\* (False, message) or (True, clean)
OrgVerdict(ok, clean) == [ok |-> ok, clean |-> clean]

validate_org_nummer(org_nummer) ==
    WithValue(
        clean_org_nummer(org_nummer),
        LAMBDA clean :
            IF ~IsDigit(clean) THEN OrgVerdict(FALSE, <<>>)
            ELSE WithValue(
                    IF Len(clean) = 12 THEN SubSeq(clean, 3, 12) ELSE clean,
                    LAMBDA ten :
                        IF Len(ten) # 10 THEN OrgVerdict(FALSE, <<>>)
                        ELSE IF ~luhn_checksum(ten) THEN OrgVerdict(FALSE, <<>>)
                        ELSE OrgVerdict(TRUE, ten)))

\* the nested luhn_check of the field validator
luhn_check(number) == IntSum(LuhnDigits(number)) % 10 = 0

\* re.sub(r'[-\s]', '', v.strip())
MixinClean(v) == SelectSeq(v, LAMBDA c : c \notin {"-", " ", "TAB"})

\* OrgNummerMixin.validate_and_normalize_org_nummer: ok is FALSE when it raises
\* ValueError.  The length limits of the field (10 to 13) are applied to the
\* number it returns.
validate_and_normalize_org_nummer(v) ==
    WithValue(
        MixinClean(v),
        LAMBDA clean :
            IF ~IsDigit(clean) THEN OrgVerdict(FALSE, <<>>)
            ELSE WithValue(
                    IF Len(clean) = 12 THEN SubSeq(clean, 3, 12) ELSE clean,
                    LAMBDA ten :
                        IF Len(ten) # 10 THEN OrgVerdict(FALSE, <<>>)
                        ELSE IF ~luhn_check(ten) THEN OrgVerdict(FALSE, <<>>)
                        ELSE OrgVerdict(TRUE, ten)))

(***************************************************************************)
(* Specification SpecOrg: one input text, validated by                     *)
(* validate_org_nummer and by the field validator; a number that           *)
(* validate_org_nummer returned is validated again.                        *)
(***************************************************************************)
\* the first nine digits of the numbers tried; each is tried with every
\* check digit
OrgPrefixes == {<<"5", "5", "6", "7", "6", "7", "1", "2", "6">>, <<"2", "1", "2", "0", "0", "0", "0", "1", "4">>, <<"0", "0", "0", "0", "0", "0", "0", "0", "0">>, <<"9", "9", "9", "9", "9", "9", "9", "9", "9">>}

CheckDigits == {<<d>> : d \in Digits}

\* the ways an input writes the ten digits n
OrgStyles(n) ==
    {n,
     SubSeq(n, 1, 6) \o <<"-">> \o SubSeq(n, 7, 10),
     SubSeq(n, 1, 6) \o <<" ">> \o SubSeq(n, 7, 10),
     <<" ">> \o n \o <<" ">>,
     <<"-", "-", " ">> \o n,
     <<"1", "6">> \o n,
     <<"2", "0">> \o SubSeq(n, 1, 6) \o <<"-">> \o SubSeq(n, 7, 10),
     <<"1", " ", "9", " ">> \o SubSeq(n, 1, 6) \o <<" ", "-", " ">> \o SubSeq(n, 7, 10),
     n \o <<"0">>,
     <<"1", "9", "0">> \o n,
     SubSeq(n, 1, 9),
     SubSeq(n, 2, 10) \o SubSeq(n, 1, 1),
     <<"a">> \o SubSeq(n, 2, 10),
     SubSeq(n, 1, 6) \o <<"TAB">> \o SubSeq(n, 7, 10),
     SubSeq(n, 1, 6) \o <<".">> \o SubSeq(n, 7, 10)}

OrgInputs ==
    {<<>>, <<"-">>, <<" ">>}
    \cup UNION {OrgStyles(p \o c) : p \in OrgPrefixes, c \in CheckDigits}

NoVerdict == [ok |-> FALSE, clean |-> <<"-">>]

InitOrg ==
    /\ soup = <<>>
    /\ call = NoCall
    /\ value = NoVerdict
    /\ nyckeltal = NoNyckeltal
    /\ flaggor = <<>>
    /\ flaggor_v4 = <<>>
    /\ cache_manager = {}
    /\ token_manager = NoToken
    /\ clock = 0
    /\ last_set = <<>>
    /\ result = NoVerdict
    /\ api \in {[kind |-> "org_nummer", text |-> t] : t \in OrgInputs}

\* validate_org_nummer(org_nummer) on the input
CallValidateOrgNummer ==
    /\ call.op # "validate_org_nummer"
    /\ call' = [op |-> "validate_org_nummer", pattern |-> api.text, context |-> "input"]
    /\ result' = validate_org_nummer(api.text)
    /\ UNCHANGED <<soup, value, nyckeltal, flaggor, flaggor_v4, api,
                 cache_manager, token_manager, clock, last_set>>

\* validate_org_nummer on the number that the call before returned
CallValidateReturned ==
    /\ call.op = "validate_org_nummer"
    /\ call.context = "input"
    /\ result.ok
    /\ call' = [op |-> "validate_org_nummer", pattern |-> result.clean,
                context |-> "returned"]
    /\ result' = validate_org_nummer(result.clean)
    /\ UNCHANGED <<soup, value, nyckeltal, flaggor, flaggor_v4, api,
                 cache_manager, token_manager, clock, last_set>>

\* a model with the field org_nummer is built from the input
CallFieldValidator ==
    /\ call.op # "OrgNummerMixin"
    /\ call.context # "returned"
    /\ value = NoVerdict
    /\ call' = [op |-> "OrgNummerMixin", pattern |-> api.text, context |-> call.context]
    /\ value' = validate_and_normalize_org_nummer(api.text)
    /\ UNCHANGED <<soup, nyckeltal, flaggor, flaggor_v4, result, api,
                 cache_manager, token_manager, clock, last_set>>

NextOrg == CallValidateOrgNummer \/ CallValidateReturned \/ CallFieldValidator

SpecOrg == InitOrg /\ [][NextOrg]_vars

\* C23: validate_org_nummer accepts an input exactly when the text left after
\* the removal of hyphens and spaces is 10 digits that pass the Luhn check, or
\* 12 digits whose last 10 pass it, and then returns those 10 digits; validating
\* a returned number succeeds and returns it unchanged; and on every accepted
\* input the field validator of OrgNummerMixin accepts too and returns the same
\* 10 digits.
C23_AcceptsLuhnNumbers ==
    LET bare == SelectSeq(api.text, LAMBDA c : c # "-" /\ c # " ")
        ten == IF Len(bare) = 12 THEN SubSeq(bare, 3, 12) ELSE bare
        Doubled(d) == IF 2 * d > 9 THEN 2 * d - 9 ELSE 2 * d
        Luhn(n) ==
            (Doubled(DigitVal(n[1])) + DigitVal(n[2]) + Doubled(DigitVal(n[3]))
             + DigitVal(n[4]) + Doubled(DigitVal(n[5])) + DigitVal(n[6])
             + Doubled(DigitVal(n[7])) + DigitVal(n[8]) + Doubled(DigitVal(n[9]))
             + DigitVal(n[10])) % 10 = 0
        accepted == /\ Len(ten) = 10
                    /\ \A i \in 1..Len(bare) : bare[i] \in Digits
                    /\ Luhn(ten)
    IN  /\ (call.op = "validate_org_nummer" /\ call.context = "input") =>
                /\ result.ok <=> accepted
                /\ result.ok => result.clean = ten
        /\ (call.op = "validate_org_nummer" /\ call.context = "returned") =>
                /\ result.ok
                /\ result.clean = call.pattern
        /\ (value # NoVerdict /\ result # NoVerdict /\ accepted) =>
                /\ value.ok
                /\ value.clean = ten

\* C23 witness: a 12-digit input written with spaces and a hyphen was accepted
\* by both validators, and the 10 digits returned were validated again.
C23_Witness ==
    /\ call.op = "validate_org_nummer"
    /\ call.context = "returned"
    /\ Len(api.text) > 13
    /\ value.ok
    /\ result.clean = value.clean

\* C24, as stated: in bolagsverket_trends the growth rate reported for the
\* revenue and for the equity is calculate_cagr of the usable values of that
\* column with years = the number of those values minus 1, also when a row of
\* the history lacks the figure.
C24_YearsFromUsableValues ==
    (call.op = "bolagsverket_trends" /\ call.context = "ok" /\ ~result.error) =>
        LET data == result.data
            Cagr(values) == Shown(calculate_cagr(values, Len(values) - 1))
        IN  /\ result.cagr_oms =
                    Cagr(TruthyValues([i \in 1..Len(data) |-> data[i].omsattning]))
            /\ result.cagr_ek =
                    Cagr(TruthyValues([i \in 1..Len(data) |-> data[i].eget_kapital]))

(***************************************************************************)
(* IXBRLParser.get_value_with_precision: the third reading of a numeric    *)
(* tag, next to _get_value and _parse_numeric_tag.                         *)
(***************************************************************************)
\* the decimals attribute (lines 1779-1785): None when it is absent, empty,
\* 'INF' in any letter case, or no integer
DecimalsOf(decimals_attr) ==
    IF decimals_attr = Absent \/ decimals_attr = <<>> THEN None
    ELSE IF Lower(decimals_attr) = <<"i", "n", "f">> THEN None
    ELSE WithValue(ParseInt(decimals_attr),
                   LAMBDA d : IF d.ok THEN Some(d.val) ELSE None)

\* float(value_text) * (10 ** scale) with the sign attribute (lines 1788-1792),
\* kept as the decimal (-1)^neg * mant * 10^exp; the words inf and nan give the
\* floats inf and nan.  ValueError gives None, OverflowError is not caught.
PrecisionNumber(text, scale, sign) ==
    LET sc == ParseInt(scale)
        f == ParseFloat(text)
    IN  IF ~sc.ok THEN None
        ELSE IF f.kind = "bad" THEN None
        ELSE IF sc.val > MaxFloatScale THEN Raised
        ELSE [kind |-> "value",
              val |-> [kind |-> IF f.kind = "inf" /\ sc.val < 0 - 323 THEN "nan" ELSE f.kind,
                       neg |-> f.kind # "nan" /\ SignOf(f, sign),
                       mant |-> f.mant, exp |-> sc.val - f.frac]]

\* the PrecisionValue of a tag (lines 1777-1802); the tags of the model carry
\* no unitref
PrecisionValue(tag) ==
    WithValue(
        PrecisionNumber(NormalizeText(tag.text, "none"),
                        Attr(tag.scale, <<"0">>), Attr(tag.sign, <<>>)),
        LAMBDA n :
            IF ~IsSome(n) THEN n
            ELSE [kind |-> "value", value |-> n.val, decimals |-> DecimalsOf(tag.decimals),
                  scale |-> ParseInt(Attr(tag.scale, <<"0">>)).val, unit |-> "SEK",
                  sign |-> Attr(tag.sign, <<>>), format |-> tag.format])

get_value_with_precision(doc, pattern, context) ==
    LET i == FindTag(doc, pattern, context)
    IN  IF i = 0 THEN None ELSE PrecisionValue(doc[i])

(***************************************************************************)
(* Specification SpecParse: a document of one numeric tag, read by         *)
(* _get_value, by _parse_numeric_tag and by get_value_with_precision.      *)
(***************************************************************************)
ParseScales == {Absent, <<"3">>, <<"-", "1">>, <<"4", "0", "0">>, <<"a", "b">>}

DecimalsHints == {Absent, <<"2">>, <<"-", "3">>, <<"I", "N", "F">>, <<"i", "n", "f">>, <<"x">>}

ParseTags ==
    [name : {Nettoomsattning}, contextref : {"period0"}, text : SampleTexts,
     format : Formats, scale : ParseScales, sign : Signs, decimals : DecimalsHints]

InitParse ==
    /\ soup \in {<<t>> : t \in ParseTags}
    /\ call = NoCall
    /\ value = None
    /\ nyckeltal = NoNyckeltal
    /\ flaggor = <<>>
    /\ flaggor_v4 = <<>>
    /\ cache_manager = {}
    /\ token_manager = NoToken
    /\ clock = 0
    /\ last_set = <<>>
    /\ result = NoResult
    /\ api = NoApi

\* self._get_value('Nettoomsattning', 'period0')
CallGetValueOfTag ==
    /\ call = NoCall
    /\ call' = [op |-> "_get_value", pattern |-> Nettoomsattning, context |-> "period0"]
    /\ value' = get_value(soup, Nettoomsattning, "period0")
    /\ UNCHANGED <<soup, nyckeltal, flaggor, flaggor_v4, result, api,
                 cache_manager, token_manager, clock, last_set>>

\* self._parse_numeric_tag(tag) for the tag of the document
CallParseNumericTag ==
    /\ call = NoCall
    /\ call' = [op |-> "_parse_numeric_tag", pattern |-> <<>>, context |-> NoContext]
    /\ value' = parse_numeric_tag(soup[1])
    /\ UNCHANGED <<soup, nyckeltal, flaggor, flaggor_v4, result, api,
                 cache_manager, token_manager, clock, last_set>>

\* self.get_value_with_precision('Nettoomsattning', 'period0')
CallGetValueWithPrecision ==
    /\ call = NoCall
    /\ call' = [op |-> "get_value_with_precision", pattern |-> Nettoomsattning,
                context |-> "period0"]
    /\ result' = get_value_with_precision(soup, Nettoomsattning, "period0")
    /\ UNCHANGED <<soup, value, nyckeltal, flaggor, flaggor_v4, api,
                 cache_manager, token_manager, clock, last_set>>

NextParse == CallGetValueOfTag \/ CallParseNumericTag \/ CallGetValueWithPrecision

SpecParse == InitParse /\ [][NextParse]_vars

\* C27, as stated: for every numeric tag, _parse_numeric_tag returns what
\* _get_value returns; get_value_with_precision returns a value exactly when
\* _get_value does, the integer part of that value is the value of _get_value,
\* and its decimals are the integer of the tag's decimals hint, None for an
\* absent or 'INF' hint.
C27_ParsingPathsAgree ==
    LET reference == get_value(soup, Nettoomsattning, "period0")
        Trunc(n) ==
            LET mag == IF n.exp >= 0 THEN n.mant * Pow10(n.exp)
                       ELSE DivPow10(n.mant, 0 - n.exp)
            IN  IF n.neg THEN 0 - mag ELSE mag
    IN  /\ call.op = "_parse_numeric_tag" => value = reference
        /\ call.op = "get_value_with_precision" =>
            /\ IsSome(result) <=> IsSome(reference)
            /\ IsSome(result) =>
                /\ result.value.kind = "num"
                /\ Trunc(result.value) = reference.val
                /\ soup[1].decimals \in {Absent, <<"I", "N", "F">>}
                        => result.decimals = None
                /\ soup[1].decimals = <<"2">> => result.decimals = Some(2)

(***************************************************************************)
(* CacheManager (lines 579-653): the table cache of the SQLite file, one   *)
(* row per key.  datetime.now() is the local wall clock of the process,    *)
(* clock + api.utc_offset; SQLite's datetime('now') and CURRENT_TIMESTAMP  *)
(* are UTC, clock.  Times are whole seconds.  A key f"{category}:{id}" is  *)
(* the pair of its two parts.                                              *)
(***************************************************************************)
\* CacheManager.DEFAULT_TTL (lines 582-588) and the fallback of line 629
DEFAULT_TTL(category) ==
    CASE category = "arsredovisning" -> 30 * 24 * 3600
      [] category = "company_info" -> 24 * 3600
      [] category = "dokumentlista" -> 7 * 24 * 3600
      [] category = "ixbrl_document" -> 30 * 24 * 3600
      [] category = "nyckeltal" -> 30 * 24 * 3600
      [] OTHER -> 3600

\* a Python value with its text: str(value), or json.dumps(value) of a dict
PyValue(type, text) == [type |-> type, text |-> text]

\* line 632: the text that is stored; the type of the value is not stored
value_str(v) == v.text

\* a JSON integer literal: digits without a leading zero, optionally negated
IsJsonInt(text) ==
    LET digits == IF text # <<>> /\ Head(text) = "-" THEN Tail(text) ELSE text
    IN  /\ IsDigit(digits)
        /\ (Len(digits) > 1 => Head(digits) # "0")

\* the text of a JSON object, as json.dumps writes a dict
IsJsonObject(text) == Len(text) >= 2 /\ Head(text) = "{" /\ text[Len(text)] = "}"

\* lines 621-624: json.loads(row[0]), and the raw text when it does not parse
json_loads(text) ==
    IF IsJsonInt(text) THEN PyValue("int", text)
    ELSE IF IsJsonObject(text) THEN PyValue("dict", text)
    ELSE PyValue("str", text)

CacheKey(category, identifier) == <<category, identifier>>

\* the local wall clock, datetime.now()
datetime_now == clock + api.utc_offset

\* the WHERE clause of get (line 616)
CacheLive(row) == row.expires_at > clock

\* the WHERE clause of clear_expired (line 647)
CacheExpired(row) == row.expires_at <= clock

CacheRows(key) == {row \in cache_manager : row.key = key}

\* the row that set writes (lines 628-637); created_at and hit_count take the
\* defaults of the table (lines 604, 606)
CacheRow(category, identifier, v, ttl) ==
    [key |-> CacheKey(category, identifier),
     value |-> value_str(v),
     category |-> category,
     created_at |-> clock,
     expires_at |-> datetime_now + (IF ttl = None THEN DEFAULT_TTL(category) ELSE ttl.val),
     hit_count |-> 0]

(***************************************************************************)
(* SpecCache: one process in one time zone sets, reads and removes the     *)
(* entries of two documents of one category while the clock advances.      *)
(***************************************************************************)
MaxHits == 1

MaxTicks == 2

\* the advances of the clock between two calls
ClockSteps == {1800, 24 * 3600, 30 * 24 * 3600}

\* UTC-5, UTC and UTC+1
UtcOffsets == {0 - 18000, 0, 3600}

CacheCategories == {"ixbrl_document", "company_info", "session"}

CacheIdentifiers == {"doc1", "doc2"}

CacheValues ==
    {PyValue("dict", <<"{", "\"", "a", "\"", ":", " ", "1", "}">>),
     PyValue("str", <<"1", "2", "3">>)}

CacheTtls == {None, Some(1800)}

NoSet == [kind |-> "none"]

InitCache ==
    /\ soup = <<>>
    /\ call = NoCall
    /\ value = None
    /\ nyckeltal = NoNyckeltal
    /\ flaggor = <<>>
    /\ flaggor_v4 = <<>>
    /\ result = None
    /\ api \in {[kind |-> "cache", utc_offset |-> o, category |-> c, ticks |-> 0] :
                    o \in UtcOffsets, c \in CacheCategories}
    /\ cache_manager = {}
    /\ token_manager = NoToken
    /\ clock = 0
    /\ last_set = [k \in {CacheKey(api.category, i) : i \in CacheIdentifiers} |-> NoSet]

\* cache_manager.set(category, identifier, value, ttl): INSERT OR REPLACE
CacheSet(identifier, v, ttl) ==
    LET key == CacheKey(api.category, identifier)
    IN  /\ call' = [op |-> "set", pattern |-> key, context |-> ttl]
        /\ cache_manager' = (cache_manager \ CacheRows(key))
                                \cup {CacheRow(api.category, identifier, v, ttl)}
        /\ result' = None
        /\ last_set' = [last_set EXCEPT ![key] =
                            [kind |-> "set", value |-> v, at |-> clock,
                             ttl |-> IF ttl = None THEN DEFAULT_TTL(api.category)
                                     ELSE ttl.val]]
        /\ UNCHANGED <<soup, value, nyckeltal, flaggor, flaggor_v4, api,
                       token_manager, clock>>

\* cache_manager.get(category, identifier)
CacheGet(identifier) ==
    LET key == CacheKey(api.category, identifier)
        rows == {row \in CacheRows(key) : CacheLive(row)}
    IN  /\ \A row \in rows : row.hit_count < MaxHits
        /\ call' = [op |-> "get", pattern |-> key, context |-> clock]
        /\ cache_manager' = (cache_manager \ rows)
                                \cup {[row EXCEPT !.hit_count = @ + 1] : row \in rows}
        /\ result' = IF rows = {} THEN None
                     ELSE [kind |-> "value",
                           val |-> json_loads((CHOOSE row \in rows : TRUE).value)]
        /\ UNCHANGED <<soup, value, nyckeltal, flaggor, flaggor_v4, api,
                       token_manager, clock, last_set>>

\* cache_manager.delete(category, identifier)
CacheDelete(identifier) ==
    LET key == CacheKey(api.category, identifier)
    IN  /\ call' = [op |-> "delete", pattern |-> key, context |-> None]
        /\ cache_manager' = cache_manager \ CacheRows(key)
        /\ result' = [kind |-> "value", val |-> CacheRows(key) # {}]
        /\ last_set' = [last_set EXCEPT ![key] = NoSet]
        /\ UNCHANGED <<soup, value, nyckeltal, flaggor, flaggor_v4, api,
                       token_manager, clock>>

\* cache_manager.clear_expired()
CacheClearExpired ==
    LET expired == {row \in cache_manager : CacheExpired(row)}
    IN  /\ call' = [op |-> "clear_expired", pattern |-> <<>>, context |-> clock]
        /\ cache_manager' = cache_manager \ expired
        /\ result' = [kind |-> "value", val |-> Cardinality(expired)]
        /\ UNCHANGED <<soup, value, nyckeltal, flaggor, flaggor_v4, api,
                       token_manager, clock, last_set>>

\* cache_manager.clear_all()
CacheClearAll ==
    /\ call' = [op |-> "clear_all", pattern |-> <<>>, context |-> None]
    /\ cache_manager' = {}
    /\ result' = [kind |-> "value", val |-> Cardinality(cache_manager)]
    /\ last_set' = [k \in DOMAIN last_set |-> NoSet]
    /\ UNCHANGED <<soup, value, nyckeltal, flaggor, flaggor_v4, api,
                   token_manager, clock>>

\* time passes between two calls
CacheTick(step) ==
    /\ api.ticks < MaxTicks
    /\ clock' = clock + step
    /\ api' = [api EXCEPT !.ticks = @ + 1]
    /\ UNCHANGED <<soup, call, value, nyckeltal, flaggor, flaggor_v4, result,
                   cache_manager, token_manager, last_set>>

NextCache ==
    \/ \E i \in CacheIdentifiers, v \in CacheValues, ttl \in CacheTtls : CacheSet(i, v, ttl)
    \/ \E i \in CacheIdentifiers : CacheGet(i)
    \/ \E i \in CacheIdentifiers : CacheDelete(i)
    \/ CacheClearExpired
    \/ CacheClearAll
    \/ \E step \in ClockSteps : CacheTick(step)

SpecCache == InitCache /\ [][NextCache]_vars

\* what get is to return for a key at the time t: the value of the last set
\* while fewer than ttl seconds have passed since it, and nothing once more have
\* passed
CacheExpected(key, t) ==
    LET s == last_set[key]
    IN  IF s.kind = "set" /\ t < s.at + s.ttl
        THEN [kind |-> "value", val |-> s.value]
        ELSE None

\* C28: after set(category, id, value, ttl), get(category, id) returns the stored
\* value at every moment before ttl seconds have passed (the given ttl, else the
\* default of the category, else 3600 s) and nothing at every moment after that,
\* unless a later set replaced the entry or delete or clear_all removed it;
\* clear_expired removes exactly the entries that get would no longer return; the
\* default time-to-live of filed documents is longer than that of status lookups.
\* call.context is the time of the call.
C28_LiveForTtlSeconds ==
    /\ (call.op = "get" /\ (last_set[call.pattern].kind = "set"
                                => call.context # last_set[call.pattern].at
                                                     + last_set[call.pattern].ttl))
            => result = CacheExpected(call.pattern, call.context)
    /\ call.op = "clear_expired"
            => \A row \in cache_manager : row.expires_at > call.context
    /\ DEFAULT_TTL("arsredovisning") > DEFAULT_TTL("company_info")
    /\ DEFAULT_TTL("ixbrl_document") > DEFAULT_TTL("company_info")

(***************************************************************************)
(* TokenManager.get_token (lines 680-709).  Both sides of the comparison   *)
(* of line 682 are datetime.now(), the local wall clock.  The token        *)
(* endpoint answers a request with a status other than 200, or with 200,   *)
(* an access_token and, optionally, expires_in (a number of seconds).      *)
(***************************************************************************)
\* Python truthiness of an Optional[str]
TruthyStr(o) == o # None /\ o.val # ""

\* lines 681-682: the cached token is returned without a request (mutation: a
\* token is returned at the second of its expiry)
UseCachedToken_UntilExpiry(force_refresh) ==
    /\ ~force_refresh
    /\ TruthyStr(token_manager.access_token)
    /\ token_manager.token_expiry # None
    /\ datetime_now <= token_manager.token_expiry.val

\* lines 681-682: the cached token is returned without a request
UseCachedToken(force_refresh) ==
    /\ ~force_refresh
    /\ TruthyStr(token_manager.access_token)
    /\ token_manager.token_expiry # None
    /\ datetime_now < token_manager.token_expiry.val

\* line 705: data.get("expires_in", 3600)
ExpiresIn(data) == IF data.expires_in = None THEN 3600 ELSE data.expires_in.val

\* lines 704-706: the state after a request that was answered with 200
TokenOf(data) ==
    [access_token |-> Some(data.access_token),
     token_expiry |-> Some(datetime_now + ExpiresIn(data) - 60)]

\* the outcome of get_token: whether a request was made, what is returned or
\* raised, and the state of the token manager afterwards
get_token(force_refresh, response) ==
    IF UseCachedToken(force_refresh)
    THEN [requested |-> FALSE, result |-> token_manager.access_token,
          token_manager |-> token_manager]
    ELSE IF response.status_code # 200
    THEN [requested |-> TRUE, result |-> Raised, token_manager |-> token_manager]
    ELSE [requested |-> TRUE, result |-> Some(response.data.access_token),
          token_manager |-> TokenOf(response.data)]

(***************************************************************************)
(* SpecToken: calls of get_token, with and without force_refresh, against  *)
(* an endpoint that answers or fails, while the clock advances.            *)
(***************************************************************************)
\* the advances of the clock between two calls
TokenClockSteps == {1740, 1800}

Tokens == {"tokenA", "tokenB"}

ExpiresInAnswers == {None, Some(1860), Some(30)}

TokenResponses ==
    {[status_code |-> s, data |-> None] : s \in {401, 500}}
    \cup {[status_code |-> 200, data |-> [access_token |-> t, expires_in |-> e]] :
            t \in Tokens, e \in ExpiresInAnswers}

InitToken ==
    /\ soup = <<>>
    /\ call = NoCall
    /\ value = None
    /\ nyckeltal = NoNyckeltal
    /\ flaggor = <<>>
    /\ flaggor_v4 = <<>>
    /\ result = None
    /\ api \in {[kind |-> "token", utc_offset |-> o, ticks |-> 0] : o \in UtcOffsets}
    /\ cache_manager = {}
    /\ token_manager = NoToken
    /\ clock = 0
    /\ last_set = <<>>

\* token_manager.get_token(force_refresh), as make_api_request calls it (line 790)
\* with force_refresh = False
CallGetToken(force_refresh, response) ==
    LET out == get_token(force_refresh, response)
    IN  /\ call' = [op |-> "get_token", pattern |-> <<>>,
                    context |-> [force_refresh |-> force_refresh,
                                 requested |-> out.requested, at |-> clock]]
        /\ result' = out.result
        /\ token_manager' = out.token_manager
        /\ UNCHANGED <<soup, value, nyckeltal, flaggor, flaggor_v4, api,
                       cache_manager, clock, last_set>>

\* time passes between two calls
TokenTick(step) ==
    /\ api.ticks < MaxTicks
    /\ clock' = clock + step
    /\ api' = [api EXCEPT !.ticks = @ + 1]
    /\ UNCHANGED <<soup, call, value, nyckeltal, flaggor, flaggor_v4, result,
                   cache_manager, token_manager, last_set>>

NextToken ==
    \/ \E force_refresh \in BOOLEAN, response \in TokenResponses :
            CallGetToken(force_refresh, response)
    \/ \E step \in TokenClockSteps : TokenTick(step)

SpecToken == InitToken /\ [][NextToken]_vars

\* C29: over any sequence of calls, get_token requests a new token if and only if
\* force_refresh is set, no token is cached, or the current time is at or past
\* token_expiry (the time of the last successful request + expires_in - 60 s), and
\* otherwise returns the cached token without a request; a request that fails
\* raises and leaves the cached token and its expiry unchanged; a token is never
\* returned from the cache at or after its recorded expiry.
C29_RequestsOnlyWhenNeeded ==
    [][(call'.op = "get_token" /\ clock' = clock) =>
        LET context == call'.context
            needed == \/ context.force_refresh
                      \/ token_manager.access_token = None
                      \/ token_manager.token_expiry = None
                      \/ datetime_now >= token_manager.token_expiry.val
        IN  /\ context.requested <=> needed
            /\ ~context.requested =>
                    /\ result' = token_manager.access_token
                    /\ token_manager' = token_manager
                    /\ datetime_now < token_manager.token_expiry.val
            /\ (context.requested /\ result' = Raised) => token_manager' = token_manager
            /\ (context.requested /\ result' # Raised) =>
                    /\ token_manager'.access_token = result'
                    /\ \E e \in {3600, 1860, 30} :
                            token_manager'.token_expiry = Some(datetime_now + e - 60)
       ]_vars

\* a token is returned from the cache, some time after the request that fetched it
\* and before its expiry
C29_Witness ==
    /\ call.op = "get_token"
    /\ ~call.context.requested
    /\ call.context.at > 0
    /\ result = token_manager.access_token
    /\ result # None

(***************************************************************************)
(* Structured error handling (lines 229-260): the body of every tool and   *)
(* resource function is one try statement whose handler turns an exception *)
(* into handle_error(ErrorCode.<member>, str(e)).                          *)
(***************************************************************************)
\* the members of the enum ErrorCode (lines 229-236)
ErrorCode ==
    {"COMPANY_NOT_FOUND", "ANNUAL_REPORT_NOT_FOUND", "API_ERROR", "AUTH_ERROR",
     "PARSE_ERROR", "INVALID_INPUT", "EXPORT_ERROR"}

ToolResult(kind, isError, errorCode) ==
    [kind |-> kind, isError |-> isError, errorCode |-> errorCode]

NormalResult == ToolResult("normal", FALSE, "")

\* an exception leaves the function
Escapes == ToolResult("raise", FALSE, "")

\* MCPError.to_response (lines 246-253) of handle_error (lines 256-260)
to_response(code) == ToolResult("error", TRUE, code)

\* the expression handle_error(ErrorCode.<name>, ...): the attribute lookup
\* ErrorCode.<name> raises AttributeError when the enum has no such member
handle_error(name) == IF name \in ErrorCode THEN to_response(name) ELSE Escapes

\* one function decorated with @mcp.tool() or @mcp.resource(): the member named
\* in its `except Exception` handler ("none": the function has no try), the
\* members of the handle_error calls inside the try, and what it depends on
ToolFunction(name, handler, returns, faults) ==
    [name |-> name, handler |-> handler, returns |-> returns, faults |-> faults]

\* the tool and resource functions of the file, with their first lines
ToolFunctions ==
    {
     ToolFunction("resource_company", "API_ERROR", {"INVALID_INPUT"}, {"api"}),  \* line 2349
     ToolFunction("resource_financials", "API_ERROR", {}, {"api", "parse"}),  \* line 2369
     ToolFunction("resource_people", "API_ERROR", {}, {"api", "parse"}),  \* line 2384
     ToolFunction("resource_annual_reports_list", "API_ERROR", {}, {"api"}),  \* line 2399
     ToolFunction("resource_risk_assessment", "API_ERROR", {"INVALID_INPUT"}, {"api", "parse"}),  \* line 2431
     ToolFunction("resource_nyckeltal_year", "API_ERROR", {"ANNUAL_REPORT_NOT_FOUND", "INVALID_INPUT"}, {"api", "parse"}),  \* line 2467
     ToolFunction("resource_company_status", "API_ERROR", {"INVALID_INPUT"}, {"api"}),  \* line 2527
     ToolFunction("resource_bransch", "API_ERROR", {"INVALID_INPUT"}, {"api"}),  \* line 2564
     ToolFunction("resource_server_info", "none", {}, {}),  \* line 2595
     ToolFunction("bolagsverket_check_status", "API_ERROR", {}, {"api"}),  \* line 2992
     ToolFunction("bolagsverket_get_basic_info", "API_ERROR", {"INVALID_INPUT"}, {"api"}),  \* line 3011
     ToolFunction("bolagsverket_get_address", "API_ERROR", {"INVALID_INPUT"}, {"api"}),  \* line 3051
     ToolFunction("bolagsverket_get_verksamhet", "API_ERROR", {"INVALID_INPUT"}, {"api"}),  \* line 3087
     ToolFunction("bolagsverket_get_nyckeltal", "ANNUAL_REPORT_NOT_FOUND", {"INVALID_INPUT"}, {"api", "parse"}),  \* line 3125
     ToolFunction("bolagsverket_get_styrelse", "ANNUAL_REPORT_NOT_FOUND", {"INVALID_INPUT"}, {"api", "parse"}),  \* line 3182
     ToolFunction("bolagsverket_get_trends", "API_ERROR", {"ANNUAL_REPORT_NOT_FOUND", "INVALID_INPUT", "PARSE_ERROR"}, {"api", "parse"}),  \* line 3219
     ToolFunction("bolagsverket_batch_lookup", "API_ERROR", {}, {"api", "parse"}),  \* line 3319
     ToolFunction("bolagsverket_export", "EXPORT_ERROR", {"INVALID_INPUT"}, {"api", "parse"}),  \* line 3393
     ToolFunction("bolagsverket_list_arsredovisningar", "API_ERROR", {"INVALID_INPUT"}, {"api"}),  \* line 3459
     ToolFunction("bolagsverket_download_original", "EXPORT_ERROR", {"INVALID_INPUT"}, {"api", "parse"}),  \* line 3518
     ToolFunction("bolagsverket_analyze_full", "API_ERROR", {"INVALID_INPUT"}, {"api", "parse"}),  \* line 3783
     ToolFunction("bolagsverket_compare", "API_ERROR", {"INVALID_INPUT"}, {"api", "parse"}),  \* line 3934
     ToolFunction("bolagsverket_risk_check", "API_ERROR", {"INVALID_INPUT"}, {"api", "parse"}),  \* line 4011
     ToolFunction("bolagsverket_trends", "API_ERROR", {"API_ERROR", "INVALID_INPUT"}, {"api", "parse"}),  \* line 4178
     ToolFunction("bolagsverket_network", "API_ERROR", {"INVALID_INPUT"}, {"api", "parse"}),  \* line 4310
     ToolFunction("bolagsverket_koncern", "API_ERROR", {"API_ERROR"}, {"api", "parse"}),  \* line 4382
     ToolFunction("bolagsverket_export_pro", "EXPORT_ERROR", {"INVALID_INPUT"}, {"api", "parse"}),  \* line 4536
     ToolFunction("bolagsverket_taxonomy_info", "PARSE_ERROR", {"INVALID_INPUT"}, {"api", "parse"}),  \* line 4813
     ToolFunction("bolagsverket_bas_mapping", "PARSE_ERROR", {"INVALID_INPUT"}, {"api", "parse"}),  \* line 4865
     ToolFunction("bolagsverket_koncern_extended", "PARSE_ERROR", {"INVALID_INPUT"}, {"api", "parse"}),  \* line 4907
     ToolFunction("bolagsverket_revision", "PARSE_ERROR", {"INVALID_INPUT"}, {"api", "parse"}),  \* line 4966
     ToolFunction("bolagsverket_faststallelse", "PARSE_ERROR", {"INVALID_INPUT"}, {"api", "parse"}),  \* line 5024
     ToolFunction("bolagsverket_cache", "UNKNOWN_ERROR", {}, {"cache"}),  \* line 5084
     ToolFunction("bolagsverket_utokad_info", "PARSE_ERROR", {"INVALID_INPUT"}, {"api", "parse"})  \* line 5128
    }

\* what a call meets: nothing, a condition that the body answers with a
\* handle_error call of its own, or an exception raised inside the try
ToolOutcomes(f) ==
    {[kind |-> "normal", what |-> ""]}
    \cup {[kind |-> "return", what |-> c] : c \in f.returns}
    \cup {[kind |-> "exception", what |-> x] : x \in f.faults}

\* the function's return value, or the exception that leaves it
tool_call(f, outcome) ==
    CASE outcome.kind = "normal" -> NormalResult
      [] outcome.kind = "return" -> handle_error(outcome.what)
      [] outcome.kind = "exception" ->
            IF f.handler = "none" THEN Escapes ELSE handle_error(f.handler)

(***************************************************************************)
(* SpecErrors: every tool and resource function is called, and meets every *)
(* outcome that its body can meet.                                         *)
(***************************************************************************)
InitErrors ==
    /\ soup = <<>>
    /\ call = NoCall
    /\ value = None
    /\ nyckeltal = NoNyckeltal
    /\ flaggor = <<>>
    /\ flaggor_v4 = <<>>
    /\ result = NormalResult
    /\ api = [kind |-> "errors"]
    /\ cache_manager = {}
    /\ token_manager = NoToken
    /\ clock = 0
    /\ last_set = <<>>

CallTool(f, outcome) ==
    /\ call' = [op |-> f.name, pattern |-> <<>>, context |-> outcome]
    /\ result' = tool_call(f, outcome)
    /\ UNCHANGED <<soup, value, nyckeltal, flaggor, flaggor_v4, api,
                   cache_manager, token_manager, clock, last_set>>

NextErrors == \E f \in ToolFunctions : \E outcome \in ToolOutcomes(f) : CallTool(f, outcome)

SpecErrors == InitErrors /\ [][NextErrors]_vars

\* C30: no exception escapes a tool or resource function: whatever fails inside
\* it, the function returns either its normal result or a structured error
\* response with isError = true and an errorCode that is a member of ErrorCode.
C30_NoExceptionEscapes ==
    call.op # "init" =>
        /\ result.kind # "raise"
        /\ result.kind = "error" => (result.isError /\ result.errorCode \in ErrorCode)

====
